---- MODULE Spec2Model ----
(***************************************************************************)
(* A model of the tree-walking evaluator of the Monkey interpreter         *)
(* (src/src/eval/mod.rs, env.rs, object.rs) over the AST of src/src/ast.rs *)
(*                                                                         *)
(* The state is one Eval instance as the REPL keeps it (src/src/repl.rs):  *)
(* the arena of environments, the evaluator's current environment and the  *)
(* result of the last call of Eval::eval.  Every Rc<RefCell<Env>> is an    *)
(* index into the arena `envs`; index Root is the environment made by      *)
(* Eval::new.  `trace` is a history variable: the evaluator appends one    *)
(* event at each of the places named in the comments below, so that        *)
(* properties about the order of evaluation can be stated.                 *)
(*                                                                         *)
(* The lexer (src/src/lexer.rs) and the parser (src/src/parser.rs) are     *)
(* modelled over the bytes of a source text; `source` is the text handed   *)
(* to Lexer::new and `parsed` what Parser::parse_program returned for it.  *)
(* `lexer` is a Lexer driven directly through next_token, and `tokens` the *)
(* history of those calls.                                                 *)
(***************************************************************************)
EXTENDS Integers, Sequences, FiniteSets, TLC

VARIABLES envs, env, result, trace, program, nevals, overflow_checks,
          source, parsed, lexer, tokens

vars == <<envs, env, result, trace, program, nevals, overflow_checks,
          source, parsed, lexer, tokens>>

-----------------------------------------------------------------------------
(* Bounds *)

\* number of calls of Eval::eval on the one interpreter instance
MaxEvals == 2

\* i64 is modelled with IntBits bits (the model checker's integers are 32 bit)
IntBits == 8

RECURSIVE Pow2(_)
Pow2(n) == IF n = 0 THEN 1 ELSE 2 * Pow2(n - 1)

IntMin == -Pow2(IntBits - 1)
IntMax == Pow2(IntBits - 1) - 1

-----------------------------------------------------------------------------
(* ast.rs *)

Identifier(name) == [x |-> "Identifier", name |-> name]
LitInt(n) == [x |-> "Literal", lit |-> [l |-> "Int", int |-> n]]
LitBool(b) == [x |-> "Literal", lit |-> [l |-> "Bool", bool |-> b]]
LitString(s) == [x |-> "Literal", lit |-> [l |-> "String", str |-> s]]
PrefixExpr(op, right) == [x |-> "Prefix", op |-> op, right |-> right]
InfixExpr(op, left, right) == [x |-> "Infix", op |-> op, left |-> left, right |-> right]
IfExpression(c, t, e) == [x |-> "If", condition |-> c, consequence |-> t, alternative |-> e]
FunctionExpr(params, body) == [x |-> "Function", params |-> params, body |-> body]
CallExpr(f, args) == [x |-> "Call", function |-> f, args |-> args]

Let(id, value) == [s |-> "Let", id |-> id, value |-> value]
Return(value) == [s |-> "Return", value |-> value]
ExprStmt(e) == [s |-> "Expression", expr |-> e]

InfixOps == {"+", "-", "/", "*", "==", "!=", ">", "<"}
PrefixOps == {"+", "-", "!"}

\* an entry of Program = Vec<Result<Statement>>
OkStmt(s) == [ok |-> TRUE, stmt |-> s]
ErrStmt(msg) == [ok |-> FALSE, err |-> [e |-> "ParseError", msg |-> msg]]

-----------------------------------------------------------------------------
(* object.rs *)

IntObj(n) == [t |-> "Int", int |-> n]
BoolObj(b) == [t |-> "Bool", bool |-> b]
StringObj(s) == [t |-> "String", str |-> s]
Null == [t |-> "Null"]
Empty == [t |-> "Empty"]
ReturnValue(o) == [t |-> "ReturnValue", value |-> o]
Function(params, body, e) == [t |-> "Function", params |-> params, body |-> body, env |-> e]

RECURSIVE get_type(_)
get_type(obj) ==
    CASE obj.t = "Int" -> "int"
      [] obj.t = "Bool" -> "bool"
      [] obj.t = "String" -> "string"
      [] obj.t = "Null" -> "null"
      [] obj.t = "ReturnValue" -> get_type(obj.value)
      [] obj.t = "Empty" -> "empty"
      [] obj.t = "Function" -> "function"

-----------------------------------------------------------------------------
(* env.rs *)

Root == 1
NoOuter == 0

\* (mutant) a new environment is its own outer environment
EnvNewSelf == [store |-> <<>>, outer |-> 1]

\* Env::new
EnvNew == [store |-> <<>>, outer |-> NoOuter]

\* Env::get: the bound value, or None
None == [t |-> "None"]

\* (mutant) the outer environments are searched before the environment itself
RECURSIVE get_outer_first(_, _, _)
get_outer_first(heap, e, id) ==
    IF heap[e].outer # NoOuter /\ get_outer_first(heap, heap[e].outer, id) # None
    THEN get_outer_first(heap, heap[e].outer, id)
    ELSE IF id \in DOMAIN heap[e].store THEN heap[e].store[id] ELSE None

RECURSIVE get(_, _, _)
get(heap, e, id) ==
    IF id \in DOMAIN heap[e].store
    THEN heap[e].store[id]
    ELSE IF heap[e].outer # NoOuter
         THEN get(heap, heap[e].outer, id)
         ELSE None

\* (mutant) assign replaces the whole store by the one binding
assign_clobber(environment, id, value) ==
    [environment EXCEPT !.store = [n \in {id} |-> value]]

\* Env::assign on one Env value
assign(environment, id, value) ==
    [environment EXCEPT !.store =
        [n \in (DOMAIN environment.store) \cup {id} |->
            IF n = id THEN value ELSE environment.store[n]]]

-----------------------------------------------------------------------------
(* Results of the evaluator's functions.  k is "ok" (Ok(v)), "err" (Err(v)) *)
(* or "panic" (the thread panicked: v is the panic message); st is the      *)
(* evaluator state the function leaves behind.                              *)

Res(k, v, st) == [k |-> k, v |-> v, st |-> st]
Ok(v, st) == Res("ok", v, st)
Err(v, st) == Res("err", v, st)
Panic(v, st) == Res("panic", v, st)

Log(st, event) == [st EXCEPT !.trace = Append(@, event)]

InfixError(op, l, r) ==
    [e |-> "InfixNotFound", op |-> op, left |-> l, right |-> r]
PrefixError(op, t) == [e |-> "PrefixNotDefined", op |-> op, type |-> t]
IdentifierError(name) == [e |-> "IdentifierNotFound", name |-> name]
NotAFunctionError(obj) == [e |-> "NotAFunction", obj |-> obj]
ArityError(expected, given) ==
    [e |-> "WrongNumberOfArguments", expected |-> expected, given |-> given]

-----------------------------------------------------------------------------
(* eval/mod.rs: operators *)

\* the payload of a panic
PanicMessage(msg) == [panic |-> msg]

\* two's complement wrap-around of a result that left the integer range
Wrap(n) == ((n - IntMin) % Pow2(IntBits)) + IntMin

\* an arithmetic result: panics on overflow when the build has overflow
\* checks (debug), wraps otherwise (release)
Arith(n, checks) ==
    IF n >= IntMin /\ n <= IntMax
    THEN [k |-> "ok", v |-> IntObj(n)]
    ELSE IF checks
         THEN [k |-> "panic", v |-> PanicMessage("arithmetic overflow")]
         ELSE [k |-> "ok", v |-> IntObj(Wrap(n))]

\* Rust's integer division truncates toward zero
TruncDiv(a, b) ==
    IF (a >= 0) = (b >= 0)
    THEN (IF a >= 0 THEN a ELSE -a) \div (IF b >= 0 THEN b ELSE -b)
    ELSE -((IF a >= 0 THEN a ELSE -a) \div (IF b >= 0 THEN b ELSE -b))

eval_integer_infix(operator, left, right, checks) ==
    CASE operator = "+" -> Arith(left + right, checks)
      [] operator = "-" -> Arith(left - right, checks)
      [] operator = "/" ->
            IF right = 0
            THEN [k |-> "panic", v |-> PanicMessage("attempt to divide by zero")]
            ELSE IF left = IntMin /\ right = -1
                 THEN [k |-> "panic", v |-> PanicMessage("attempt to divide with overflow")]
                 ELSE [k |-> "ok", v |-> IntObj(TruncDiv(left, right))]
      [] operator = "*" -> Arith(left * right, checks)
      [] operator = "==" -> [k |-> "ok", v |-> BoolObj(left = right)]
      [] operator = ">" -> [k |-> "ok", v |-> BoolObj(left > right)]
      [] operator = "<" -> [k |-> "ok", v |-> BoolObj(left < right)]
      [] operator = "!=" -> [k |-> "ok", v |-> BoolObj(left # right)]

eval_bool_infix(operator, left, right) ==
    CASE operator = "==" -> [k |-> "ok", v |-> BoolObj(left = right)]
      [] operator = "!=" -> [k |-> "ok", v |-> BoolObj(left # right)]
      [] OTHER -> [k |-> "err",
                   v |-> InfixError(operator, get_type(left), get_type(right))]

eval_string_infix(operator, left, right) ==
    CASE operator = "+" -> [k |-> "ok", v |-> StringObj(left \o right)]
      [] OTHER -> [k |-> "err", v |-> InfixError(operator, "string", "string")]

\* (mutant) a boolean operand next to an integer is coerced to 0 or 1
BoolAsInt(obj) == IF obj.t = "Bool" THEN IntObj(IF obj.bool THEN 1 ELSE 0) ELSE obj

apply_infix_coerce(operator, left, right, checks) ==
    CASE BoolAsInt(left).t = "Int" /\ BoolAsInt(right).t = "Int"
            /\ ~(left.t = "Bool" /\ right.t = "Bool") ->
            eval_integer_infix(operator, BoolAsInt(left).int, BoolAsInt(right).int, checks)
      [] left.t = "Bool" /\ right.t = "Bool" ->
            eval_bool_infix(operator, left, right)
      [] left.t = "String" /\ right.t = "String" ->
            eval_string_infix(operator, left.str, right.str)
      [] OTHER -> [k |-> "err",
                   v |-> InfixError(operator, get_type(left), get_type(right))]

\* the match of eval_infix on the two operand values
apply_infix(operator, left, right, checks) ==
    CASE left.t = "Int" /\ right.t = "Int" ->
            eval_integer_infix(operator, left.int, right.int, checks)
      [] left.t = "Bool" /\ right.t = "Bool" ->
            eval_bool_infix(operator, left, right)
      [] left.t = "String" /\ right.t = "String" ->
            eval_string_infix(operator, left.str, right.str)
      [] OTHER -> [k |-> "err",
                   v |-> InfixError(operator, get_type(left), get_type(right))]

eval_prefix_plus(obj) ==
    IF obj.t = "Int"
    THEN [k |-> "ok", v |-> obj]
    ELSE [k |-> "err", v |-> PrefixError("+", get_type(obj))]

eval_prefix_minus(obj, checks) ==
    IF obj.t = "Int"
    THEN Arith(-obj.int, checks)
    ELSE [k |-> "err", v |-> PrefixError("-", get_type(obj))]

eval_bang(obj) ==
    IF obj.t = "Bool"
    THEN [k |-> "ok", v |-> BoolObj(~obj.bool)]
    ELSE [k |-> "err", v |-> PrefixError("!", get_type(obj))]

\* (mutant) the integer zero counts as false
is_truthy_nonzero(condition) ==
    ~(condition.t = "Null" \/ (condition.t = "Bool" /\ condition.bool = FALSE)
        \/ (condition.t = "Int" /\ condition.int = 0))

is_truthy(condition) ==
    ~(condition.t = "Null" \/ (condition.t = "Bool" /\ condition.bool = FALSE))

eval_literal(literal) ==
    CASE literal.l = "Int" -> IntObj(literal.int)
      [] literal.l = "Bool" -> BoolObj(literal.bool)
      [] literal.l = "String" -> StringObj(literal.str)

-----------------------------------------------------------------------------
(* eval/mod.rs: the evaluator.  st = [envs, env, trace, checks] is the      *)
(* arena, self.env, the history and the build's overflow-check setting.     *)

\* (mutant) dynamic scoping: the call's environment is enclosed by the caller's
scoped_env_dynamic(function, current_env) == [EnvNew EXCEPT !.outer = current_env]

\* lines 237-238: the environment of a call, enclosed by the captured one
scoped_env(function, current_env) == [EnvNew EXCEPT !.outer = function.env]

\* (mutant) the caller's environment is not restored
restore_env_skipped(st, current_env) == st

\* line 247: self.env = current_env
restore_env(st, current_env) == [st EXCEPT !.env = current_env]

\* (mutant) the number of arguments is not checked
arity_mismatch_never(params, args) == FALSE

\* line 227: params.len() != args.len()
arity_mismatch(params, args) == Len(params) # Len(args)

\* line 81: the closure made from a function literal
make_function(params, body, st) == Function(params, body, st.env)

\* lines 240-242: bind the parameters, failing on the first failed argument
RECURSIVE bind_params(_, _, _, _)
bind_params(params, args, i, scoped) ==
    IF i > Len(params) \/ i > Len(args)
    THEN [k |-> "ok", v |-> scoped]
    ELSE IF args[i].k = "err"
         THEN [k |-> "err", v |-> args[i].v]
         ELSE bind_params(params, args, i + 1, assign(scoped, params[i], args[i].v))

(* Each function of the evaluator is one operator of the same name; where   *)
(* the function goes on after a recursive call, the rest of its body is the *)
(* next operator, which takes the Result of that call as a parameter.       *)

RECURSIVE eval_statement(_, _)
RECURSIVE eval_expr(_, _)
RECURSIVE eval_block_loop(_, _, _, _)
RECURSIVE eval_block_match(_, _, _)
RECURSIVE eval_args(_, _, _, _, _)
RECURSIVE eval_call(_, _, _)
RECURSIVE eval_infix(_, _, _, _)
RECURSIVE eval_prefix(_, _, _)
RECURSIVE eval_if(_, _)
RECURSIVE eval_loop(_, _, _, _)

\* lines 50-54: the match on the Result of one statement of a block
eval_block_match(block, i, r) ==
    IF r.k # "ok" THEN r
    ELSE IF r.v.t = "ReturnValue" THEN Ok(ReturnValue(r.v.value), r.st)
    ELSE eval_block_loop(block, i + 1, r.v, r.st)

\* lines 49-56: the loop over the statements of a block
eval_block_loop(block, i, last, st) ==
    IF i > Len(block)
    THEN Ok(last, st)
    ELSE eval_block_match(block, i, eval_statement(block[i], st))

\* lines 46-57
eval_block_statement(block, st) == eval_block_loop(block, 1, Null, st)

\* history: a let bound id to value in environment env, turning the arena
\* before into after
let_done(id, value, before, st) ==
    Log(st, [ev |-> "let", name |-> id, value |-> value, env |-> st.env,
             before |-> before, after |-> st.envs])

\* (mutant) the binding is made in the root environment
let_statement_root(id, r) ==
    IF r.k # "ok" THEN r
    ELSE Ok(Empty, let_done(id, r.v, r.st.envs,
                            [r.st EXCEPT !.envs[Root] = assign(@, id, r.v)]))

\* lines 61-65: Statement::Let, given the Result of its expression
let_statement(id, r) ==
    IF r.k # "ok" THEN r
    ELSE Ok(Empty, let_done(id, r.v, r.st.envs,
                            [r.st EXCEPT !.envs[r.st.env] = assign(@, id, r.v)]))

\* lines 66-68: Statement::Return, given the Result of its expression
return_statement(r) ==
    IF r.k # "ok" THEN r ELSE Ok(ReturnValue(r.v), r.st)

\* history: a statement begins, a statement ends with Result r
stmt_begin(statement, st) ==
    Log(st, [ev |-> "stmt", node |-> statement, env |-> st.env])

stmt_end(statement, r) ==
    IF r.k = "panic" THEN r
    ELSE Res(r.k, r.v,
             Log(r.st, [ev |-> "stmt_end", node |-> statement,
                        env |-> r.st.env, k |-> r.k, v |-> r.v]))

\* lines 59-71
eval_statement(statement, st) ==
    stmt_end(statement,
        CASE statement.s = "Let" ->
                let_statement(statement.id,
                              eval_expr(statement.value, stmt_begin(statement, st)))
          [] statement.s = "Return" ->
                return_statement(eval_expr(statement.value, stmt_begin(statement, st)))
          [] statement.s = "Expression" ->
                eval_expr(statement.expr, stmt_begin(statement, st)))

\* lines 88-92, given the Option that Env::get returned
identifier_result(id, obj, st) ==
    IF obj # None
    THEN Ok(obj, Log(st, [ev |-> "ident", name |-> id, env |-> st.env,
                          envs |-> st.envs, k |-> "ok", v |-> obj]))
    ELSE Err(IdentifierError(id),
             Log(st, [ev |-> "ident", name |-> id, env |-> st.env,
                      envs |-> st.envs, k |-> "err",
                      v |-> IdentifierError(id)]))

\* lines 87-93
eval_identifier(id, st) == identifier_result(id, get(st.envs, st.env, id), st)

\* (mutant) the closure captures a copy of the current environment
eval_function_snapshot(params, body, st) ==
    Ok(Function(params, body, Len(st.envs) + 1),
       Log([st EXCEPT !.envs = Append(@, st.envs[st.env])],
           [ev |-> "closure", obj |-> Function(params, body, Len(st.envs) + 1),
            env |-> Len(st.envs) + 1]))

\* lines 80-82
eval_function(params, body, st) ==
    Ok(make_function(params, body, st),
       Log(st, [ev |-> "closure", obj |-> make_function(params, body, st),
                env |-> st.env]))

\* lines 74-84: the match on the expression
eval_expr_match(expression, st) ==
    CASE expression.x = "Literal" -> Ok(eval_literal(expression.lit), st)
      [] expression.x = "Prefix" ->
            eval_prefix(expression.op, expression.right, st)
      [] expression.x = "Infix" ->
            eval_infix(expression.op, expression.left, expression.right, st)
      [] expression.x = "If" -> eval_if(expression, st)
      [] expression.x = "Identifier" -> eval_identifier(expression.name, st)
      [] expression.x = "Function" ->
            eval_function(expression.params, expression.body, st)
      [] expression.x = "Call" ->
            eval_call(expression.function, expression.args, st)

\* lines 73-85
eval_expr(expression, st) ==
    eval_expr_match(expression,
        Log(st, [ev |-> "expr", node |-> expression, env |-> st.env]))

\* history: the block chosen by eval_if returned r; at is the position of
\* the "if" event
if_end(at, r) ==
    Res(r.k, r.v, Log(r.st, [ev |-> "if_end", at |-> at, k |-> r.k, v |-> r.v]))

\* history: the condition of if_expr, whose evaluation began at position
\* start, has the value cond
if_begin(if_expr, start, cond, st) ==
    Log(st, [ev |-> "if", node |-> if_expr, start |-> start, cond |-> cond])

\* lines 98-102, given the Result of the condition
eval_if_branch(if_expr, start, condition) ==
    IF condition.k # "ok" THEN condition
    ELSE IF is_truthy(condition.v)
         THEN if_end(Len(condition.st.trace) + 1,
                     eval_block_statement(if_expr.consequence,
                         if_begin(if_expr, start, condition.v, condition.st)))
         ELSE if_end(Len(condition.st.trace) + 1,
                     eval_block_statement(if_expr.alternative,
                         if_begin(if_expr, start, condition.v, condition.st)))

\* lines 95-103
eval_if(if_expr, st) ==
    eval_if_branch(if_expr, Len(st.trace) + 1,
                   eval_expr(if_expr.condition, st))

\* lines 122-140, given the operand values and the outcome a of the match;
\* c = [op, lnode, rnode, li, ri] is the operator, the operand expressions
\* and the positions in the history where their evaluations began
infix_result(c, left, right, a, st) ==
    Res(a.k, a.v,
        Log(st, [ev |-> "infix", op |-> c.op, left |-> left, right |-> right,
                 lnode |-> c.lnode, rnode |-> c.rnode, li |-> c.li, ri |-> c.ri,
                 k |-> a.k, v |-> a.v]))

\* lines 120-140, given the left value and the Result of the right operand
eval_infix_apply(c, left, r, checks) ==
    IF r.k # "ok" THEN r
    ELSE infix_result(c, left, r.v, apply_infix(c.op, left, r.v, checks), r.st)

\* lines 119-120, given the Result of the left operand
eval_infix_right(c, l, checks) ==
    IF l.k # "ok" THEN l
    ELSE eval_infix_apply([c EXCEPT !.ri = Len(l.st.trace) + 1], l.v,
                          eval_expr(c.rnode, l.st), checks)

\* lines 113-141
eval_infix(operator, left, right, st) ==
    eval_infix_right([op |-> operator, lnode |-> left, rnode |-> right,
                      li |-> Len(st.trace) + 1, ri |-> 0],
                     eval_expr(left, st), st.checks)

\* the match of eval_prefix on the operator (lines 182-186)
apply_prefix(operator, obj, checks) ==
    CASE operator = "!" -> eval_bang(obj)
      [] operator = "-" -> eval_prefix_minus(obj, checks)
      [] operator = "+" -> eval_prefix_plus(obj)

\* lines 182-186, given the operand value and the outcome a of the match
prefix_result(operator, obj, a, st) ==
    Res(a.k, a.v,
        Log(st, [ev |-> "prefix", op |-> operator, operand |-> obj,
                 k |-> a.k, v |-> a.v]))

\* lines 182-186, given the Result of the operand
eval_prefix_apply(operator, expr, checks) ==
    IF expr.k # "ok" THEN expr
    ELSE prefix_result(operator, expr.v,
                       apply_prefix(operator, expr.v, checks), expr.st)

\* lines 179-187
eval_prefix(operator, right, st) ==
    eval_prefix_apply(operator, eval_expr(right, st), st.checks)

\* lines 215-218, given the Result r of argument i, which began at position at
eval_args_collect(args, i, vals, idx, at, r) ==
    IF r.k = "panic"
    THEN [k |-> "panic", vals |-> r.v, idx |-> idx, st |-> r.st]
    ELSE eval_args(args, i + 1, Append(vals, [k |-> r.k, v |-> r.v]),
                   Append(idx, at), r.st)

\* lines 215-218: every argument is evaluated and its Result kept; vals are
\* the Results in order, idx the positions in the history where each began
eval_args(args, i, vals, idx, st) ==
    IF i > Len(args)
    THEN [k |-> "ok", vals |-> vals, idx |-> idx, st |-> st]
    ELSE eval_args_collect(args, i, vals, idx, Len(st.trace) + 1,
                           eval_expr(args[i], st))

\* the Result eval_call returns, with the event of its return.  c = [entry,
\* args, ci, ai]: self.env when eval_call was entered, the Results of the
\* arguments, and the positions in the history where the evaluation of the
\* callee and of each argument began; callee is the Result of the callee
call_return(r, c, callee) ==
    Res(r.k, r.v,
        Log(r.st, [ev |-> "ret", before |-> c.entry, after |-> r.st.env,
                   k |-> r.k, v |-> r.v, callee |-> callee, args |-> c.args,
                   ci |-> c.ci, ai |-> c.ai, envs |-> r.st.envs]))

\* lines 245-249, given the Result of the body
eval_call_body(c, function, current_env, obj) ==
    IF obj.k = "panic" THEN obj
    ELSE call_return(Res(obj.k, obj.v, restore_env(obj.st, current_env)),
                     c, [k |-> "ok", v |-> function])

\* lines 240-245, given the outcome b of binding the parameters
eval_call_bind(c, function, st, b) ==
    IF b.k = "err"
    THEN call_return(Err(b.v, st), c, [k |-> "ok", v |-> function])
    ELSE eval_call_body(c, function, st.env,
            eval_block_statement(function.body,
                Log([st EXCEPT !.envs = Append(@, b.v), !.env = Len(st.envs) + 1],
                    [ev |-> "body", fn |-> function, env |-> Len(st.envs) + 1,
                     caller |-> st.env])))

\* lines 222-242, given the value of the callee
eval_call_check(c, function, st) ==
    IF function.t # "Function"
    THEN call_return(Err(NotAFunctionError(function), st), c,
                     [k |-> "ok", v |-> function])
    ELSE IF arity_mismatch(function.params, c.args)
    THEN call_return(Err(ArityError(Len(function.params), Len(c.args)), st), c,
                     [k |-> "ok", v |-> function])
    ELSE eval_call_bind(c, function, st,
            bind_params(function.params, c.args, 1, scoped_env(function, st.env)))

\* line 220, given the Result of the callee
eval_call_function(c, f) ==
    IF f.k = "panic" THEN f
    ELSE IF f.k = "err" THEN call_return(f, c, [k |-> f.k, v |-> f.v])
    ELSE eval_call_check(c, f.v,
            Log(f.st, [ev |-> "apply", callee |-> f.v, args |-> c.args,
                       env |-> f.st.env, envs |-> f.st.envs]))

\* lines 215-220, given the Results of the arguments
eval_call_args(function, entry, a) ==
    IF a.k = "panic" THEN Panic(a.vals, a.st)
    ELSE eval_call_function([entry |-> entry, args |-> a.vals,
                             ci |-> Len(a.st.trace) + 1, ai |-> a.idx],
                            eval_expr(function, a.st))

\* lines 214-250
eval_call(function, args, st) ==
    eval_call_args(function, st.env, eval_args(args, 1, <<>>, <<>>, st))

\* lines 36-40: the match on the Result of one statement of the program
eval_match(prog, i, r) ==
    IF r.k # "ok" THEN r
    ELSE IF r.v.t = "ReturnValue" THEN Ok(r.v.value, r.st)
    ELSE eval_loop(prog, i + 1, r.v, r.st)

\* (mutant) a program with a parse-error entry is rejected before any of
\* its statements is evaluated
eval_loop_upfront(prog, i, last, st) ==
    IF \E k \in DOMAIN prog : ~prog[k].ok
    THEN Err(prog[CHOOSE k \in DOMAIN prog : ~prog[k].ok].err, st)
    ELSE IF i > Len(prog)
    THEN Ok(last, st)
    ELSE eval_match(prog, i, eval_statement(prog[i].stmt, st))

\* lines 35-43: the loop over the entries of the program
eval_loop(prog, i, last, st) ==
    IF i > Len(prog)
    THEN Ok(last, st)
    ELSE IF ~prog[i].ok THEN Err(prog[i].err, st)
    ELSE eval_match(prog, i, eval_statement(prog[i].stmt, st))

\* lines 32-44
eval(prog, st) == eval_loop(prog, 1, Null, st)

-----------------------------------------------------------------------------
(* lexer.rs.  The input is the sequence of the bytes of the source text,    *)
(* each a one-character string; Nul is the byte 0 that read_char yields     *)
(* past the end of the input.                                               *)

Nul == "NUL"

Letters ==
    {"a", "b", "c", "d", "e", "f", "g", "h", "i", "j", "k", "l", "m", "n",
     "o", "p", "q", "r", "s", "t", "u", "v", "w", "x", "y", "z",
     "A", "B", "C", "D", "E", "F", "G", "H", "I", "J", "K", "L", "M", "N",
     "O", "P", "Q", "R", "S", "T", "U", "V", "W", "X", "Y", "Z"}

Digits == <<"0", "1", "2", "3", "4", "5", "6", "7", "8", "9">>

is_ascii_alphabetic(ch) == ch \in Letters
is_ascii_digit(ch) == \E i \in DOMAIN Digits : Digits[i] = ch
is_ascii_whitespace(ch) == ch \in {" ", "\t", "\n", "\f", "\r"}

DigitValue(ch) == (CHOOSE i \in DOMAIN Digits : Digits[i] = ch) - 1

\* String::from_utf8_lossy(bytes).to_string() for the name of an identifier
RECURSIVE from_utf8(_)
from_utf8(bytes) ==
    IF bytes = <<>> THEN "" ELSE Head(bytes) \o from_utf8(Tail(bytes))

\* Token (lines 3-39)
Token(t) == [t |-> t]
TokenIdent(name) == [t |-> "Ident", name |-> name]
TokenInt(n) == [t |-> "Int", int |-> n]
TokenBool(b) == [t |-> "Bool", bool |-> b]
TokenString(s) == [t |-> "String", str |-> s]

\* Result<Token> of the lexer together with the lexer it leaves behind
Lexed(k, tok, l) == [k |-> k, tok |-> tok, l |-> l]

\* lines 60-69
read_char(l) ==
    [l EXCEPT !.ch = IF l.read_position >= Len(l.input)
                     THEN Nul
                     ELSE l.input[l.read_position + 1],
              !.position = l.read_position,
              !.read_position = l.read_position + 1]

\* lines 49-58
LexerNew(input) ==
    read_char([input |-> input, position |-> 0, read_position |-> 0, ch |-> Nul])

peek_current(l) == l.ch

\* lines 170-176
peek(l) ==
    IF l.read_position >= Len(l.input) THEN Nul ELSE l.input[l.read_position + 1]

\* lines 153-157
RECURSIVE skip_whitespace(_)
skip_whitespace(l) ==
    IF is_ascii_whitespace(l.ch) THEN skip_whitespace(read_char(l)) ELSE l

\* &self.input[from..to] (0-based, to exclusive)
Slice(input, from, to) == SubSeq(input, from + 1, to)

\* lines 145-151
RECURSIVE read_identifier_loop(_, _)
read_identifier_loop(l, pos) ==
    IF is_ascii_alphabetic(l.ch) \/ l.ch = "_"
    THEN read_identifier_loop(read_char(l), pos)
    ELSE [ident |-> from_utf8(Slice(l.input, pos, l.position)), l |-> l]

read_identifier(l) == read_identifier_loop(l, l.position)

\* lines 108-117
keyword(ident) ==
    CASE ident = "fn" -> Token("Function")
      [] ident = "let" -> Token("Let")
      [] ident = "if" -> Token("If")
      [] ident = "else" -> Token("Else")
      [] ident = "true" -> TokenBool(TRUE)
      [] ident = "false" -> TokenBool(FALSE)
      [] ident = "return" -> Token("Return")
      [] OTHER -> TokenIdent(ident)

\* str::parse::<i64>() of a run of digits: None when the number does not fit
RECURSIVE parse_i64(_, _)
parse_i64(digits, acc) ==
    IF digits = <<>> THEN acc
    ELSE IF acc * 10 + DigitValue(Head(digits)) > IntMax THEN IntMax + 1
    ELSE parse_i64(Tail(digits), acc * 10 + DigitValue(Head(digits)))

\* lines 159-168; the unwrap panics when the digits do not fit an i64
RECURSIVE read_int_loop(_, _)
read_int_loop(l, pos) ==
    IF is_ascii_digit(l.ch)
    THEN read_int_loop(read_char(l), pos)
    ELSE IF parse_i64(Slice(l.input, pos, l.position), 0) > IntMax
         THEN Lexed("panic",
                    PanicMessage("called Result::unwrap() on an Err value"), l)
         ELSE Lexed("ok",
                    TokenInt(parse_i64(Slice(l.input, pos, l.position), 0)), l)

read_int(l) == read_int_loop(l, l.position)

\* lines 134-142, l2 being the lexer after the read_char of line 135
RECURSIVE read_string_loop(_, _)
read_string_closed(l, pos) ==
    Lexed("ok", TokenString(Slice(l.input, pos, l.position - 1)), l)

read_string_next(l2, pos) ==
    IF l2.ch = Nul
    THEN Lexed("err", [e |-> "LexError", msg |-> "String is not properly closed!"], l2)
    ELSE read_string_loop(l2, pos)

read_string_loop(l, pos) ==
    IF l.ch # "\""
    THEN read_string_next(read_char(l), pos)
    ELSE read_string_closed(read_char(l), pos)

\* lines 130-143
read_string_from(l) == read_string_loop(l, l.position)

read_string(l) == read_string_from(read_char(l))

\* lines 75-103: the one- and two-byte tokens
punctuation(ch) ==
    CASE ch = ";" -> "Semicolon"
      [] ch = "(" -> "Lparen"
      [] ch = ")" -> "Rparen"
      [] ch = "," -> "Comma"
      [] ch = "+" -> "Plus"
      [] ch = "-" -> "Minus"
      [] ch = "*" -> "Asterisk"
      [] ch = "/" -> "Slash"
      [] ch = "<" -> "Lt"
      [] ch = ">" -> "Gt"
      [] ch = "{" -> "LSquirly"
      [] ch = "}" -> "RSquirly"
      [] ch = Nul -> "Eof"
      [] OTHER -> "none"

\* lines 74-127, after skip_whitespace
next_token_match(l) ==
    CASE l.ch = "=" ->
            IF peek(l) = "="
            THEN Lexed("ok", Token("Equal"), read_char(read_char(l)))
            ELSE Lexed("ok", Token("Assign"), read_char(l))
      [] l.ch = "!" ->
            IF peek(l) = "="
            THEN Lexed("ok", Token("NotEqual"), read_char(read_char(l)))
            ELSE Lexed("ok", Token("Bang"), read_char(l))
      [] punctuation(l.ch) # "none" ->
            Lexed("ok", Token(punctuation(l.ch)), read_char(l))
      [] is_ascii_alphabetic(l.ch) \/ l.ch = "_" ->
            Lexed("ok", keyword(read_identifier(l).ident), read_identifier(l).l)
      [] is_ascii_digit(l.ch) -> read_int(l)
      [] l.ch = "\"" -> read_string(l)
      [] OTHER ->
            Lexed("err", [e |-> "LexError",
                          msg |-> "No program should contain this token",
                          ch |-> l.ch], l)

\* lines 71-128
lexer_next_token(l) == next_token_match(skip_whitespace(l))

-----------------------------------------------------------------------------
(* parser.rs.  A parser p = [lexer, current_token, peek_token]; every parse *)
(* function returns its Result (k is "ok", "err" or "panic", v the value)   *)
(* together with the parser it leaves behind.                               *)

\* ast.rs lines 5-14
Lowest == 0
Equals == 1
LessGreater == 2
Sum == 3
Product == 4
PrefixPrecedence == 5
CallPrecedence == 6

PRes(k, v, p) == [k |-> k, v |-> v, p |-> p]
POk(v, p) == PRes("ok", v, p)
PErr(msg, p) == PRes("err", [e |-> "ParseError", msg |-> msg], p)

\* lines 34-36, given the Result of the lexer
next_token_set(p, lx) ==
    IF lx.k = "ok"
    THEN POk(<<>>, [p EXCEPT !.lexer = lx.l, !.current_token = p.peek_token,
                             !.peek_token = lx.tok, !.reads = @ + 1])
    ELSE PRes(lx.k, lx.tok,
              [p EXCEPT !.lexer = lx.l, !.current_token = p.peek_token,
                        !.peek_token = Token("Illegal")])

\* lines 33-37
next_token(p) == next_token_set(p, lexer_next_token(p.lexer))

\* lines 21-25: the Parser before its two tokens are read
ParserFields(l) ==
    [lexer |-> l, current_token |-> Token("Illegal"),
     peek_token |-> Token("Illegal"), reads |-> 0, loops |-> <<>>]

\* history: the body of one of the parser's loops is entered with parser p
Iterate(loop, p) ==
    [p EXCEPT !.loops = Append(@, [loop |-> loop, reads |-> p.reads,
                                   token |-> p.current_token.t])]

\* lines 20-31: the Results of the two next_token calls are dropped
ParserNew(l) == next_token(next_token(ParserFields(l)).p).p

\* a panic of read_int while Parser::new fills the two tokens
ParserNewPanics(l) ==
    \/ next_token(ParserFields(l)).k = "panic"
    \/ next_token(next_token(ParserFields(l)).p).k = "panic"

\* lines 39-44
parse_ident(p) ==
    IF p.current_token.t = "Ident"
    THEN POk(<<p.current_token.name>>, p)
    ELSE PErr("Failed to parse identifier", p)

\* lines 46-48
parse_ident_expr(p) ==
    IF parse_ident(p).k = "ok"
    THEN POk(Identifier(parse_ident(p).v), p)
    ELSE parse_ident(p)

\* lines 50-55
parse_int_expr(p) ==
    IF p.current_token.t = "Int"
    THEN POk(LitInt(p.current_token.int), p)
    ELSE PErr("Failed to parse int", p)

\* lines 309-314
parse_bool_expr(p) ==
    IF p.current_token.t = "Bool"
    THEN POk(LitBool(p.current_token.bool), p)
    ELSE PErr("Failed to parse bool expression!", p)

\* (mutant) the four arithmetic operators have one precedence
get_precedence_flat(token) ==
    CASE token.t \in {"Equal", "NotEqual"} -> Equals
      [] token.t \in {"Lt", "Gt"} -> LessGreater
      [] token.t \in {"Plus", "Minus", "Slash", "Asterisk"} -> Sum
      [] token.t = "Lparen" -> CallPrecedence
      [] OTHER -> Lowest

\* lines 275-284
get_precedence(token) ==
    CASE token.t \in {"Equal", "NotEqual"} -> Equals
      [] token.t \in {"Lt", "Gt"} -> LessGreater
      [] token.t \in {"Plus", "Minus"} -> Sum
      [] token.t \in {"Slash", "Asterisk"} -> Product
      [] token.t = "Lparen" -> CallPrecedence
      [] OTHER -> Lowest

\* lines 287-297
infix_of(token) ==
    CASE token.t = "Plus" -> "+"
      [] token.t = "Minus" -> "-"
      [] token.t = "Slash" -> "/"
      [] token.t = "Asterisk" -> "*"
      [] token.t = "Equal" -> "=="
      [] token.t = "NotEqual" -> "!="
      [] token.t = "Lt" -> "<"
      [] token.t = "Gt" -> ">"
      [] OTHER -> "none"

\* lines 260-265
prefix_of(token) ==
    CASE token.t = "Bang" -> "!"
      [] token.t = "Plus" -> "+"
      [] token.t = "Minus" -> "-"

InfixTokens ==
    {"Plus", "Minus", "Slash", "Asterisk", "Equal", "NotEqual", "Lt", "Gt"}

RECURSIVE parse_expression(_, _)
RECURSIVE parse_expression_loop(_, _)
RECURSIVE parse_statement(_)
RECURSIVE parse_block_loop(_, _)
RECURSIVE parse_call_args_loop(_, _)

\* lines 57-75
let_value(name, e) ==
    IF e.k # "ok" THEN e ELSE POk(Let(name, e.v), e.p)

let_expression(name, n) ==
    IF n.k # "ok" THEN n ELSE let_value(name, parse_expression(n.p, Lowest))

let_assign(name, n) ==
    IF n.k # "ok" THEN n
    ELSE IF n.p.current_token.t # "Assign"
         THEN PErr("Missing assign token after identifier in let statement", n.p)
         ELSE let_expression(name, next_token(n.p))

let_name(n) ==
    IF n.k # "ok" THEN n
    ELSE IF n.p.current_token.t # "Ident"
         THEN PErr("Missing indentifier in let statement", n.p)
         ELSE let_assign(parse_ident(n.p).v, next_token(n.p))

parse_let_statement(p) == let_name(next_token(p))

\* lines 77-83
return_value(e) ==
    IF e.k # "ok" THEN e ELSE POk(Return(e.v), e.p)

return_expression(n) ==
    IF n.k # "ok" THEN n ELSE return_value(parse_expression(n.p, Lowest))

parse_return_statement(p) == return_expression(next_token(p))

\* lines 94-97: the loop of parse_block_statement
parse_block_next(block, n) ==
    IF n.k # "ok" THEN n ELSE parse_block_loop(block, n.p)

parse_block_push(block, s) ==
    IF s.k # "ok" THEN s
    ELSE parse_block_next(Append(block, s.v), next_token(s.p))

parse_block_loop(block, p) ==
    IF p.current_token.t # "RSquirly" /\ p.current_token.t # "Semicolon"
    THEN parse_block_push(block, parse_statement(Iterate("block", p)))
    ELSE POk(block, p)

parse_block_begin(n) ==
    IF n.k # "ok" THEN n ELSE parse_block_loop(<<>>, n.p)

\* lines 85-100
parse_block_statement(p) ==
    IF p.current_token.t # "LSquirly"
    THEN PErr("Failed to parse block statement!", p)
    ELSE parse_block_begin(next_token(p))

\* lines 122-126: the three Results are unwrapped in this order
if_result(condition, consequence, alternative) ==
    IF condition.k # "ok" THEN PRes(condition.k, condition.v, alternative.p)
    ELSE IF consequence.k # "ok"
         THEN PRes(consequence.k, consequence.v, alternative.p)
    ELSE IF alternative.k # "ok" THEN alternative
    ELSE POk(IfExpression(condition.v, consequence.v, alternative.v),
             alternative.p)

\* lines 116-117
if_else(condition, consequence, n) ==
    IF n.k # "ok" THEN n
    ELSE IF parse_block_statement(n.p).k = "panic"
         THEN parse_block_statement(n.p)
         ELSE if_result(condition, consequence, parse_block_statement(n.p))

\* lines 112-120
if_alternative(condition, consequence, n) ==
    IF n.k # "ok" THEN n
    ELSE IF n.p.current_token.t = "Else"
         THEN if_else(condition, consequence, next_token(n.p))
         ELSE if_result(condition, consequence, POk(<<>>, n.p))

\* lines 111-112
if_after_consequence(condition, consequence) ==
    IF consequence.k = "panic" THEN consequence
    ELSE if_alternative(condition, consequence, next_token(consequence.p))

if_consequence(condition, n) ==
    IF n.k # "ok" THEN n
    ELSE if_after_consequence(condition, parse_block_statement(n.p))

\* lines 107-109
if_rparen(condition) ==
    IF condition.k = "panic" THEN condition
    ELSE IF condition.p.current_token.t = "Rparen"
         THEN if_consequence(condition, next_token(condition.p))
         ELSE if_consequence(condition, POk(<<>>, condition.p))

if_condition(n) ==
    IF n.k # "ok" THEN n ELSE if_rparen(parse_expression(n.p, Lowest))

\* lines 102-127
parse_if_expr(p) == if_condition(next_token(p))

\* lines 132-139: the loop of parse_function_parameters
RECURSIVE parse_parameters_loop(_, _)
parameters_comma(params, n) ==
    IF n.k # "ok" THEN n ELSE parse_parameters_loop(params, n.p)

parameters_next(params, n) ==
    IF n.k # "ok" THEN n
    ELSE IF n.p.current_token.t = "Comma"
         THEN parameters_comma(params, next_token(n.p))
         ELSE parse_parameters_loop(params, n.p)

parameters_push(params, id) ==
    IF id.k # "ok" THEN id
    ELSE parameters_next(Append(params, id.v), next_token(id.p))

parse_parameters_loop(params, p) ==
    IF p.current_token.t # "Rparen"
    THEN parameters_push(params, parse_ident(Iterate("parameters", p)))
    ELSE PRes(next_token(p).k,
              IF next_token(p).k = "ok" THEN params ELSE next_token(p).v,
              next_token(p).p)

\* lines 129-143
parse_function_parameters(p) == parse_parameters_loop(<<>>, p)

\* lines 159-161
function_body(params, body) ==
    IF body.k # "ok" THEN body ELSE POk(FunctionExpr(params, body.v), body.p)

\* lines 153-159
function_parameters(params) ==
    IF params.k # "ok" THEN params
    ELSE IF params.p.current_token.t # "LSquirly"
         THEN PErr("Failed to parse function body!", params.p)
         ELSE function_body(params.v, parse_block_statement(params.p))

\* line 151
function_lparen_next(n) ==
    IF n.k # "ok" THEN n ELSE function_parameters(parse_function_parameters(n.p))

\* lines 146-151
function_lparen(n) ==
    IF n.k # "ok" THEN n
    ELSE IF n.p.current_token.t # "Lparen"
         THEN PErr("Failed to parse function expression!", n.p)
         ELSE function_lparen_next(next_token(n.p))

\* lines 145-162
parse_function_expr(p) == function_lparen(next_token(p))

\* lines 167-174: the loop of parse_call_args
call_args_comma(args, n) ==
    IF n.k # "ok" THEN n ELSE parse_call_args_loop(args, n.p)

call_args_next(args, n) ==
    IF n.k # "ok" THEN n
    ELSE IF n.p.current_token.t = "Comma"
         THEN call_args_comma(args, next_token(n.p))
         ELSE parse_call_args_loop(args, n.p)

call_args_push(args, e) ==
    IF e.k # "ok" THEN e
    ELSE call_args_next(Append(args, e.v), next_token(e.p))

parse_call_args_loop(args, p) ==
    IF p.current_token.t # "Rparen"
    THEN call_args_push(args, parse_expression(Iterate("call_args", p), Lowest))
    ELSE POk(args, p)

\* lines 164-177
parse_call_args(p) == parse_call_args_loop(<<>>, p)

\* lines 182-187
call_expr(function, args) ==
    IF args.k # "ok" THEN args ELSE POk(CallExpr(function, args.v), args.p)

call_args(function, n) ==
    IF n.k # "ok" THEN n ELSE call_expr(function, parse_call_args(n.p))

\* lines 179-188
parse_call_expr(p, function) == call_args(function, next_token(p))

\* lines 302-306
infix_expr(infix, left, right) ==
    IF right.k # "ok" THEN right
    ELSE POk(InfixExpr(infix, left, right.v), right.p)

infix_right(infix, precedence, left, n) ==
    IF n.k # "ok" THEN n
    ELSE infix_expr(infix, left, parse_expression(n.p, precedence))

\* lines 286-307
parse_infix_expr(p, left) ==
    IF infix_of(p.current_token) = "none"
    THEN PErr("No valid infix operator", p)
    ELSE infix_right(infix_of(p.current_token), get_precedence(p.current_token),
                     left, next_token(p))

\* lines 269-272
prefix_expr(prefix, right) ==
    IF right.k # "ok" THEN right ELSE POk(PrefixExpr(prefix, right.v), right.p)

prefix_right(prefix, n) ==
    IF n.k # "ok" THEN n
    ELSE prefix_expr(prefix, parse_expression(n.p, PrefixPrecedence))

\* lines 259-273
parse_prefix_expr(p) == prefix_right(prefix_of(p.current_token), next_token(p))

\* lines 321-327
grouped_rparen(expr, n) ==
    IF n.k # "ok" THEN n ELSE PRes(expr.k, expr.v, n.p)

grouped_expr(expr) ==
    IF expr.k = "panic" THEN expr
    ELSE IF expr.p.peek_token.t # "Rparen"
         THEN PErr("Failed to parse grouped expression!", expr.p)
         ELSE grouped_rparen(expr, next_token(expr.p))

grouped_inner(n) ==
    IF n.k # "ok" THEN n ELSE grouped_expr(parse_expression(n.p, Lowest))

\* lines 316-328
parse_grouped_expr(p) == grouped_inner(next_token(p))

\* lines 191-200: the match on the current token
parse_expression_match(p) ==
    CASE p.current_token.t = "Ident" -> parse_ident_expr(p)
      [] p.current_token.t = "Int" -> parse_int_expr(p)
      [] p.current_token.t = "Bool" -> parse_bool_expr(p)
      [] p.current_token.t = "Lparen" -> parse_grouped_expr(p)
      [] p.current_token.t \in {"Plus", "Bang", "Minus"} -> parse_prefix_expr(p)
      [] p.current_token.t = "If" -> parse_if_expr(p)
      [] p.current_token.t = "Function" -> parse_function_expr(p)
      [] OTHER -> [k |-> "bail",
                   v |-> [e |-> "ParseError",
                          msg |-> "Expression type is unhandled yet!",
                          token |-> p.current_token],
                   p |-> p]

\* lines 214-215 and 218-219, given the Result of next_token: expr is
\* unwrapped after the token has been read
expression_infix(expr, precedence, n) ==
    IF n.k # "ok" THEN n
    ELSE IF expr.k # "ok" THEN PRes(expr.k, expr.v, n.p)
    ELSE parse_expression_loop(parse_infix_expr(n.p, expr.v), precedence)

expression_call(expr, precedence, n) ==
    IF n.k # "ok" THEN n
    ELSE IF expr.k # "ok" THEN PRes(expr.k, expr.v, n.p)
    ELSE parse_expression_loop(parse_call_expr(n.p, expr.v), precedence)

\* lines 202-225: the loop, expr being the Result parsed so far
parse_expression_loop(expr, precedence) ==
    IF expr.k = "panic" THEN expr
    ELSE IF expr.p.peek_token.t # "Semicolon"
            /\ precedence < get_precedence(expr.p.peek_token)
         THEN IF expr.p.peek_token.t \in InfixTokens
              THEN expression_infix(expr, precedence, next_token(expr.p))
              ELSE IF expr.p.peek_token.t = "Lparen"
                   THEN expression_call(expr, precedence, next_token(expr.p))
                   ELSE PErr("Invalid expression!", expr.p)
         ELSE expr

\* lines 190-226
parse_expression_begin(expr, precedence) ==
    IF expr.k = "bail" THEN PRes("err", expr.v, expr.p)
    ELSE parse_expression_loop(expr, precedence)

parse_expression(p, precedence) ==
    parse_expression_begin(parse_expression_match(p), precedence)

\* lines 228-232
expression_statement(e) ==
    IF e.k # "ok" THEN e ELSE POk(ExprStmt(e.v), e.p)

parse_expression_statement(p) ==
    expression_statement(parse_expression(p, Lowest))

\* lines 241-245, given the Result of the statement
statement_end(statement) ==
    IF statement.k = "panic" THEN statement
    ELSE IF statement.p.peek_token.t \in {"Semicolon", "Eof"}
         THEN IF next_token(statement.p).k # "ok"
              THEN next_token(statement.p)
              ELSE PRes(statement.k, statement.v, next_token(statement.p).p)
         ELSE statement

\* lines 234-246
parse_statement(p) ==
    statement_end(
        CASE p.current_token.t = "Let" -> parse_let_statement(p)
          [] p.current_token.t = "Return" -> parse_return_statement(p)
          [] OTHER -> parse_expression_statement(p))

\* an entry of Program for the Result of one statement
Entry(statement) ==
    IF statement.k = "ok" THEN OkStmt(statement.v)
    ELSE [ok |-> FALSE, err |-> statement.v]

\* lines 251-254: the loop of parse_program; the Result is Ok(program) or
\* the error of a failed next_token
RECURSIVE parse_program_loop(_, _)
program_next(prog, n) ==
    IF n.k # "ok" THEN PRes(n.k, [err |-> n.v, program |-> prog], n.p)
    ELSE parse_program_loop(prog, n.p)

program_push(prog, statement) ==
    IF statement.k = "panic"
    THEN PRes("panic", [err |-> statement.v, program |-> prog], statement.p)
    ELSE program_next(Append(prog, Entry(statement)), next_token(statement.p))

parse_program_loop(prog, p) ==
    IF p.current_token.t # "Eof"
    THEN program_push(prog, parse_statement(Iterate("program", p)))
    ELSE POk([err |-> [e |-> "none"], program |-> prog], p)

\* lines 248-257
parse_program(p) == parse_program_loop(<<>>, p)

-----------------------------------------------------------------------------
(* The inputs: programs as the parser hands them to Eval::eval.  The source *)
(* text of each is given in its comment.                                    *)

Prog(stmts) == [i \in DOMAIN stmts |-> OkStmt(stmts[i])]

Id(c) == Identifier(<<c>>)
Fn(params, body) == FunctionExpr(params, body)
Call(f, args) == CallExpr(f, args)
Gt10 == InfixExpr(">", LitInt(10), LitInt(1))

\* let x = 1; let f = fn() { x }; let g = fn(x) { f() };
PDefScope ==
    Prog(<<Let(<<"x">>, LitInt(1)),
           Let(<<"f">>, Fn(<<>>, <<ExprStmt(Id("x"))>>)),
           Let(<<"g">>, Fn(<<<<"x">>>>, <<ExprStmt(Call(Id("f"), <<>>))>>))>>)
\* g(2)
PCallG == Prog(<<ExprStmt(Call(Id("g"), <<LitInt(2)>>))>>)
\* let x = 7;
PLetX == Prog(<<Let(<<"x">>, LitInt(7))>>)
\* let n = fn(x) { fn(y) { x + y } }; let t = n(2);
PDefAdder ==
    Prog(<<Let(<<"n">>,
               Fn(<<<<"x">>>>,
                  <<ExprStmt(Fn(<<<<"y">>>>,
                                <<ExprStmt(InfixExpr("+", Id("x"), Id("y")))>>))>>)),
           Let(<<"t">>, Call(Id("n"), <<LitInt(2)>>))>>)
\* t(3)
PCallAdder == Prog(<<ExprStmt(Call(Id("t"), <<LitInt(3)>>))>>)
\* let n = fn(x) { fn(y) { x + y } }; let t = n(2); t(2);
PClosures == PDefAdder \o Prog(<<ExprStmt(Call(Id("t"), <<LitInt(2)>>))>>)
\* let h = fn(x) { return x; };
PDefH == Prog(<<Let(<<"h">>, Fn(<<<<"x">>>>, <<Return(Id("x"))>>))>>)
\* h(5) + 1
PCallPlus == Prog(<<ExprStmt(InfixExpr("+", Call(Id("h"), <<LitInt(5)>>), LitInt(1)))>>)
\* h(5); 9;
PCallThen == Prog(<<ExprStmt(Call(Id("h"), <<LitInt(5)>>)), ExprStmt(LitInt(9))>>)
\* return h(5);
PReturnCall == Prog(<<Return(Call(Id("h"), <<LitInt(5)>>))>>)
\* let i = fn(x) { x; }; i(i(5)) + 1;
PIdentity ==
    Prog(<<Let(<<"i">>, Fn(<<<<"x">>>>, <<ExprStmt(Id("x"))>>)),
           ExprStmt(InfixExpr("+",
                        Call(Id("i"), <<Call(Id("i"), <<LitInt(5)>>)>>),
                        LitInt(1)))>>)
\* return if (true) { return 1; };
PReturnIf ==
    Prog(<<Return(IfExpression(LitBool(TRUE), <<Return(LitInt(1))>>, <<>>))>>)
\* if (10 > 1) { if (10 > 1) { return 10; } return 1; } 9;
PNestedReturn ==
    Prog(<<ExprStmt(IfExpression(Gt10,
                <<ExprStmt(IfExpression(Gt10, <<Return(LitInt(10))>>, <<>>)),
                  Return(LitInt(1))>>,
                <<>>)),
           ExprStmt(LitInt(9))>>)
\* let a = if (true) { return 1; }; 2;
PLetIfReturn ==
    Prog(<<Let(<<"a">>, IfExpression(LitBool(TRUE), <<Return(LitInt(1))>>, <<>>)),
           ExprStmt(LitInt(2))>>)
\* 9; return 2 * 5; 9;
PReturnMid ==
    Prog(<<ExprStmt(LitInt(9)), Return(InfixExpr("*", LitInt(2), LitInt(5))),
           ExprStmt(LitInt(9))>>)
\* 5(1)
PCallInt == Prog(<<ExprStmt(Call(LitInt(5), <<LitInt(1)>>))>>)
\* h()
PCallNoArgs == Prog(<<ExprStmt(Call(Id("h"), <<>>))>>)
\* h(1, 2)
PCallTwoArgs == Prog(<<ExprStmt(Call(Id("h"), <<LitInt(1), LitInt(2)>>))>>)
\* h(b)
PCallBadArg == Prog(<<ExprStmt(Call(Id("h"), <<Id("b")>>))>>)
\* h(b, 1)
PCallBadArgArity == Prog(<<ExprStmt(Call(Id("h"), <<Id("b"), LitInt(1)>>))>>)
\* c(b)
PCallBadBoth == Prog(<<ExprStmt(Call(Id("c"), <<Id("b")>>))>>)
\* fn(p, q) { p }(if (true) { b; }, if (true) { let z = 1; }); 5;
PCallBadThenLet ==
    Prog(<<ExprStmt(Call(Fn(<<<<"p">>, <<"q">>>>, <<ExprStmt(Id("p"))>>),
                         <<IfExpression(LitBool(TRUE), <<ExprStmt(Id("b"))>>, <<>>),
                           IfExpression(LitBool(TRUE),
                                        <<Let(<<"z">>, LitInt(1))>>, <<>>)>>)),
           ExprStmt(LitInt(5))>>)
\* fn() { b }()
PBodyError == Prog(<<ExprStmt(Call(Fn(<<>>, <<ExprStmt(Id("b"))>>), <<>>))>>)
\* fn() { fn() { b; 1 }(); 2 }(); 3
PNestedBodyError ==
    Prog(<<ExprStmt(Call(Fn(<<>>,
                <<ExprStmt(Call(Fn(<<>>, <<ExprStmt(Id("b")), ExprStmt(LitInt(1))>>),
                                <<>>)),
                  ExprStmt(LitInt(2))>>), <<>>)),
           ExprStmt(LitInt(3))>>)
\* fn(p) { h() }(1)
PNestedArity ==
    Prog(<<ExprStmt(Call(Fn(<<<<"p">>>>, <<ExprStmt(Call(Id("h"), <<>>))>>),
                         <<LitInt(1)>>))>>)
\* fn(x) { x; }(5)
PCallLiteral ==
    Prog(<<ExprStmt(Call(Fn(<<<<"x">>>>, <<ExprStmt(Id("x"))>>), <<LitInt(5)>>))>>)
\* let a = 5;
PLetA == Prog(<<Let(<<"a">>, LitInt(5))>>)
\* a;
PGetA == Prog(<<ExprStmt(Id("a"))>>)
\* let a = a + 1; a;
PIncrA ==
    Prog(<<Let(<<"a">>, InfixExpr("+", Id("a"), LitInt(1))), ExprStmt(Id("a"))>>)
\* x;
PGetX == Prog(<<ExprStmt(Id("x"))>>)
\* fn(p) { let x = 3; p }(1); x;
PLetInBody ==
    Prog(<<ExprStmt(Call(Fn(<<<<"p">>>>,
                            <<Let(<<"x">>, LitInt(3)), ExprStmt(Id("p"))>>),
                         <<LitInt(1)>>)),
           ExprStmt(Id("x"))>>)
\* 5 + true; 5;
PInfixErrorThen ==
    Prog(<<ExprStmt(InfixExpr("+", LitInt(5), LitBool(TRUE))), ExprStmt(LitInt(5))>>)
\* if (10 > 1) { true + false; let a = 0; } 5;
PBlockError ==
    Prog(<<ExprStmt(IfExpression(Gt10,
                <<ExprStmt(InfixExpr("+", LitBool(TRUE), LitBool(FALSE))),
                  Let(<<"a">>, LitInt(0))>>, <<>>)),
           ExprStmt(LitInt(5))>>)
\* if (1 > 2) { 10 } else { 20 }
PIfElse ==
    Prog(<<ExprStmt(IfExpression(InfixExpr(">", LitInt(1), LitInt(2)),
                                 <<ExprStmt(LitInt(10))>>, <<ExprStmt(LitInt(20))>>))>>)
\* if (false) { 10 }
PIfNoElse ==
    Prog(<<ExprStmt(IfExpression(LitBool(FALSE), <<ExprStmt(LitInt(10))>>, <<>>))>>)
\* -true
PMinusTrue == Prog(<<ExprStmt(PrefixExpr("-", LitBool(TRUE)))>>)
\* 5 / 0; 1;
PDivZero ==
    Prog(<<ExprStmt(InfixExpr("/", LitInt(5), LitInt(0))), ExprStmt(LitInt(1))>>)
\* let g = fn() { y }; let y = 3; g()
PLateBinding ==
    Prog(<<Let(<<"g">>, Fn(<<>>, <<ExprStmt(Id("y"))>>)),
           Let(<<"y">>, LitInt(3)),
           ExprStmt(Call(Id("g"), <<>>))>>)
\* let y = 1; let g = fn() { y }; let y = 2; g()
POverwrite ==
    Prog(<<Let(<<"y">>, LitInt(1)),
           Let(<<"g">>, Fn(<<>>, <<ExprStmt(Id("y"))>>)),
           Let(<<"y">>, LitInt(2)),
           ExprStmt(Call(Id("g"), <<>>))>>)
\* let r = fn(n) { if (n < 1) { 0 } else { r(n - 1) } }; r(2)
PRecursive ==
    Prog(<<Let(<<"r">>,
               Fn(<<<<"n">>>>,
                  <<ExprStmt(IfExpression(
                        InfixExpr("<", Id("n"), LitInt(1)),
                        <<ExprStmt(LitInt(0))>>,
                        <<ExprStmt(Call(Id("r"),
                                        <<InfixExpr("-", Id("n"), LitInt(1))>>))>>))>>)),
           ExprStmt(Call(Id("r"), <<LitInt(2)>>))>>)
\* let e = 5; <an entry that failed to parse>; let w = 1;
PLetParseError ==
    <<OkStmt(Let(<<"e">>, LitInt(5))),
      ErrStmt("Expression type is unhandled yet!"),
      OkStmt(Let(<<"w">>, LitInt(1)))>>
\* let e = 5; b; let w = 1;
PLetEvalError ==
    Prog(<<Let(<<"e">>, LitInt(5)), ExprStmt(Id("b")), Let(<<"w">>, LitInt(1))>>)
\* e;
PGetE == Prog(<<ExprStmt(Id("e"))>>)

Programs ==
    {PDefScope, PCallG, PLetX, PDefAdder, PCallAdder, PClosures, PDefH,
     PCallPlus, PCallThen, PReturnCall, PIdentity, PReturnIf, PNestedReturn,
     PLetIfReturn, PReturnMid, PCallInt, PCallNoArgs, PCallTwoArgs,
     PCallBadArg, PCallBadArgArity, PCallBadBoth, PCallBadThenLet, PBodyError,
     PNestedBodyError, PNestedArity, PCallLiteral, PLetA, PGetA, PIncrA, PGetX,
     PLetInBody, PInfixErrorThen, PBlockError, PIfElse, PIfNoElse, PMinusTrue,
     PDivZero, PLateBinding, POverwrite, PRecursive, PLetParseError,
     PLetEvalError, PGetE}

-----------------------------------------------------------------------------
(* The interpreter instance of repl.rs: Eval::new, then Eval::eval on each  *)
(* input                                                                    *)

NoResult == [k |-> "none"]
NoParse == [k |-> "none"]

\* no Lexer is being driven directly
NoLexer == [input |-> <<>>, position |-> 0, read_position |-> 0, ch |-> "none"]

\* Eval::new (lines 26-30), before any input
Init ==
    /\ envs = <<EnvNew>>
    /\ env = Root
    /\ result = NoResult
    /\ trace = <<>>
    /\ program = <<>>
    /\ nevals = 0
    /\ overflow_checks \in BOOLEAN
    /\ source = <<>>
    /\ parsed = NoParse
    /\ lexer = NoLexer
    /\ tokens = <<>>

\* the interpreter after eval returned r for the input p
EvalDone(p, r) ==
    /\ envs' = r.st.envs
    /\ env' = r.st.env
    /\ trace' = r.st.trace
    /\ result' = [k |-> r.k, v |-> r.v]
    /\ program' = p
    /\ nevals' = nevals + 1
    /\ UNCHANGED <<overflow_checks, source, parsed, lexer, tokens>>

\* one call eval.eval(program) (repl.rs line 21); a panic ends the process
EvalProgram(p) ==
    /\ nevals < MaxEvals
    /\ result.k # "panic"
    /\ EvalDone(p, eval(p, [envs |-> envs, env |-> env, trace |-> <<>>,
                            checks |-> overflow_checks]))

Next == \E p \in Programs : EvalProgram(p)

Spec == Init /\ [][Next]_vars

-----------------------------------------------------------------------------
(* A second specification for the infix operators: the input is one infix   *)
(* expression over operands of every kind of value, evaluated once by a     *)
(* fresh interpreter.                                                        *)

Operands ==
    {LitInt(5), LitInt(2), LitInt(0), LitBool(TRUE), LitBool(FALSE),
     LitString(<<"a">>), LitString(<<>>),
     \* if (false) { 1 }: Null
     IfExpression(LitBool(FALSE), <<ExprStmt(LitInt(1))>>, <<>>),
     \* if (true) { let z = 1; }: Empty
     IfExpression(LitBool(TRUE), <<Let(<<"z">>, LitInt(1))>>, <<>>),
     \* if (true) { return 1; }: ReturnValue
     IfExpression(LitBool(TRUE), <<Return(LitInt(1))>>, <<>>),
     \* fn() { }
     Fn(<<>>, <<>>)}

InfixPrograms ==
    {Prog(<<ExprStmt(InfixExpr(op, l, r))>>) :
        op \in InfixOps, l \in Operands, r \in Operands}

InfixInit ==
    /\ envs = <<EnvNew>>
    /\ env = Root
    /\ result = NoResult
    /\ trace = <<>>
    /\ program \in InfixPrograms
    /\ nevals = 0
    /\ overflow_checks \in BOOLEAN
    /\ source = <<>>
    /\ parsed = NoParse
    /\ lexer = NoLexer
    /\ tokens = <<>>

EvalPending == nevals = 0 /\ EvalProgram(program)

InfixNext == EvalPending

SpecInfix == InfixInit /\ [][InfixNext]_vars

-----------------------------------------------------------------------------
(* The same for the prefix operators: the input is one or two prefix        *)
(* operators applied to an operand of every kind of value.                  *)

\* -127 - 1 written for the model's integer width: the least integer
MinExpr == InfixExpr("-", PrefixExpr("-", LitInt(IntMax)), LitInt(1))

PrefixOperands == Operands \cup {MinExpr}

PrefixPrograms ==
    {Prog(<<ExprStmt(PrefixExpr(op, e))>>) : op \in PrefixOps, e \in PrefixOperands}
        \cup {Prog(<<ExprStmt(PrefixExpr(op, PrefixExpr(inner, e)))>>) :
                  op \in PrefixOps, inner \in PrefixOps, e \in PrefixOperands}
        \* 5++++5
        \cup {Prog(<<ExprStmt(InfixExpr("+", LitInt(5),
                        PrefixExpr("+", PrefixExpr("+", PrefixExpr("+", LitInt(5))))))>>)}

PrefixInit ==
    /\ envs = <<EnvNew>>
    /\ env = Root
    /\ result = NoResult
    /\ trace = <<>>
    /\ program \in PrefixPrograms
    /\ nevals = 0
    /\ overflow_checks \in BOOLEAN
    /\ source = <<>>
    /\ parsed = NoParse
    /\ lexer = NoLexer
    /\ tokens = <<>>

PrefixNext == EvalPending

SpecPrefix == PrefixInit /\ [][PrefixNext]_vars

-----------------------------------------------------------------------------
(* The same for if expressions: the condition is an expression of every     *)
(* kind of value or an unbound identifier, the blocks are empty, one or two *)
(* statements or an if expression again.                                    *)

Conditions == Operands \cup {Id("b")}

Consequences ==
    {<<>>, <<ExprStmt(LitInt(10))>>, <<ExprStmt(LitInt(10)), ExprStmt(LitInt(11))>>,
     <<ExprStmt(IfExpression(LitInt(0), <<ExprStmt(LitInt(30))>>,
                             <<ExprStmt(LitInt(40))>>))>>}

Alternatives ==
    {<<>>, <<ExprStmt(LitInt(20))>>,
     \* if (false) { 50 }; if (0) { 60 } else { 70 }
     <<ExprStmt(IfExpression(LitBool(FALSE), <<ExprStmt(LitInt(50))>>, <<>>)),
       ExprStmt(IfExpression(LitInt(0), <<ExprStmt(LitInt(60))>>,
                             <<ExprStmt(LitInt(70))>>))>>}

IfPrograms ==
    {Prog(<<ExprStmt(IfExpression(c, t, e))>>) :
        c \in Conditions, t \in Consequences, e \in Alternatives}

IfInit ==
    /\ envs = <<EnvNew>>
    /\ env = Root
    /\ result = NoResult
    /\ trace = <<>>
    /\ program \in IfPrograms
    /\ nevals = 0
    /\ overflow_checks \in BOOLEAN
    /\ source = <<>>
    /\ parsed = NoParse
    /\ lexer = NoLexer
    /\ tokens = <<>>

IfNext == EvalPending

SpecIf == IfInit /\ [][IfNext]_vars

-----------------------------------------------------------------------------
(* A third specification for the whole pipeline as the tests of             *)
(* eval/mod.rs run it (test::test, lines 268-274): Lexer::new on a source   *)
(* text, Parser::new, parse_program, and Eval::eval of the Program by a     *)
(* fresh interpreter.                                                        *)

\* the size of the generated arithmetic expressions: the number of
\* operators, unary minuses and pairs of parentheses
MaxOps == 3

\* Arithmetic expressions with their values in ordinary arithmetic, by the
\* grammar  E ::= T | E + T | E - T   T ::= F | T * F | T / F
\*          F ::= literal | - F | ( E )
\* An expression with a zero divisor or a value out of range is left out.
Literals == {[text |-> <<"2">>, val |-> 2, ok |-> TRUE],
             [text |-> <<"1", "3">>, val |-> 13, ok |-> TRUE]}

Spaced(op) == IF op \in {"+", "-"} THEN <<" ", op, " ">> ELSE <<op>>

BinaryValue(op, a, b) ==
    CASE op = "+" -> a + b
      [] op = "-" -> a - b
      [] op = "*" -> a * b
      [] op = "/" -> IF b = 0 THEN IntMax + 1 ELSE TruncDiv(a, b)

Binary(op, a, b) ==
    [text |-> a.text \o Spaced(op) \o b.text,
     val |-> BinaryValue(op, a.val, b.val),
     ok |-> BinaryValue(op, a.val, b.val) \in IntMin..IntMax]

Negated(f) ==
    [text |-> <<"-">> \o f.text, val |-> -f.val, ok |-> -f.val \in IntMin..IntMax]

Parenthesized(e) == [text |-> <<"(">> \o e.text \o <<")">>, val |-> e.val, ok |-> TRUE]

RECURSIVE Exprs(_)
RECURSIVE Terms(_)
RECURSIVE Factors(_)

Factors(n) ==
    IF n = 0 THEN Literals
    ELSE {f \in {Negated(g) : g \in Factors(n - 1)} : f.ok}
            \cup {Parenthesized(e) : e \in Exprs(n - 1)}

Terms(n) ==
    Factors(n)
        \cup UNION {{b \in {Binary(op, t, f) : op \in {"*", "/"}, t \in Terms(i),
                                              f \in Factors(n - 1 - i)} : b.ok} :
                    i \in 0..(n - 1)}

Exprs(n) ==
    Terms(n)
        \cup UNION {{b \in {Binary(op, e, t) : op \in {"+", "-"}, e \in Exprs(i),
                                              t \in Terms(n - 1 - i)} : b.ok} :
                    i \in 0..(n - 1)}

Arithmetic == UNION {Exprs(n) : n \in 0..MaxOps}

ArithmeticTexts == {a.text : a \in Arithmetic}

\* "ab"
SrcString ==
    <<"\"", "a", "b", "\"">>
\* "ab" + "c"
SrcConcat ==
    <<"\"", "a", "b", "\"", " ", "+", " ", "\"", "c", "\"">>
\* "a" + " "+ "b"
SrcConcatThree ==
    <<"\"", "a", "\"", " ", "+", " ", "\"", " ", "\"", "+", " ", "\"",
      "b", "\"">>
\* "a" - "b"
SrcStringMinus ==
    <<"\"", "a", "\"", " ", "-", " ", "\"", "b", "\"">>
\* "a" == "a"
SrcStringEqual ==
    <<"\"", "a", "\"", " ", "=", "=", " ", "\"", "a", "\"">>
\* @
SrcIllegal ==
    <<"@">>
\* let x = 5; 7 @ 1; 2;
SrcIllegalLater ==
    <<"l", "e", "t", " ", "x", " ", "=", " ", "5", ";", " ", "7", " ",
      "@", " ", "1", ";", " ", "2", ";">>
\* 5; "ab
SrcUnclosedString ==
    <<"5", ";", " ", "\"", "a", "b">>
\* let x = 5; x; "ab
SrcUnclosedLater ==
    <<"l", "e", "t", " ", "x", " ", "=", " ", "5", ";", " ", "x", ";",
      " ", "\"", "a", "b">>
\* let 5 = 3; 7;
SrcLetNoIdent ==
    <<"l", "e", "t", " ", "5", " ", "=", " ", "3", ";", " ", "7", ";">>
\* let x 5; 7;
SrcLetNoAssign ==
    <<"l", "e", "t", " ", "x", " ", "5", ";", " ", "7", ";">>
\* ); 7;
SrcBadThenGood ==
    <<")", ";", " ", "7", ";">>
\* let x = 5;\nlet y = true;\nlet foobar = y;
SrcLets ==
    <<"l", "e", "t", " ", "x", " ", "=", " ", "5", ";", "\n", "l", "e",
      "t", " ", "y", " ", "=", " ", "t", "r", "u", "e", ";", "\n", "l",
      "e", "t", " ", "f", "o", "o", "b", "a", "r", " ", "=", " ", "y", ";">>
\* foobar;\nfoo
SrcIdents ==
    <<"f", "o", "o", "b", "a", "r", ";", "\n", "f", "o", "o">>
\* return 5; return foobar
SrcReturns ==
    <<"r", "e", "t", "u", "r", "n", " ", "5", ";", " ", "r", "e", "t",
      "u", "r", "n", " ", "f", "o", "o", "b", "a", "r">>
\* fn (x, y) { x + y };\nlet foo = fn() {return 69;};\nfn(a){}
SrcFunctions ==
    <<"f", "n", " ", "(", "x", ",", " ", "y", ")", " ", "{", " ", "x",
      " ", "+", " ", "y", " ", "}", ";", "\n", "l", "e", "t", " ", "f",
      "o", "o", " ", "=", " ", "f", "n", "(", ")", " ", "{", "r", "e",
      "t", "u", "r", "n", " ", "6", "9", ";", "}", ";", "\n", "f", "n",
      "(", "a", ")", "{", "}">>
\* if (x < y) { x } else { return y; }
SrcIfElse ==
    <<"i", "f", " ", "(", "x", " ", "<", " ", "y", ")", " ", "{", " ",
      "x", " ", "}", " ", "e", "l", "s", "e", " ", "{", " ", "r", "e",
      "t", "u", "r", "n", " ", "y", ";", " ", "}">>
\* if (true) { 1 } else { 2 } 5
SrcIfElseThen ==
    <<"i", "f", " ", "(", "t", "r", "u", "e", ")", " ", "{", " ", "1",
      " ", "}", " ", "e", "l", "s", "e", " ", "{", " ", "2", " ", "}",
      " ", "5">>
\* if (true) { 1 } 5
SrcIfThen ==
    <<"i", "f", " ", "(", "t", "r", "u", "e", ")", " ", "{", " ", "1",
      " ", "}", " ", "5">>
\* if (true) { 1 }; 5
SrcIfSemiThen ==
    <<"i", "f", " ", "(", "t", "r", "u", "e", ")", " ", "{", " ", "1",
      " ", "}", ";", " ", "5">>
\* if (true) { 1 } let a = 5; a
SrcIfThenLet ==
    <<"i", "f", " ", "(", "t", "r", "u", "e", ")", " ", "{", " ", "1",
      " ", "}", " ", "l", "e", "t", " ", "a", " ", "=", " ", "5", ";",
      " ", "a">>
\* if (10 > 1) { if (10 > 1) { return 10; } return 1; }
SrcNestedIf ==
    <<"i", "f", " ", "(", "1", "0", " ", ">", " ", "1", ")", " ", "{",
      " ", "i", "f", " ", "(", "1", "0", " ", ">", " ", "1", ")", " ",
      "{", " ", "r", "e", "t", "u", "r", "n", " ", "1", "0", ";", " ",
      "}", " ", "r", "e", "t", "u", "r", "n", " ", "1", ";", " ", "}">>
\* let add = fn(a, b) { a + b }; add(1, 2 * 3)
SrcCall ==
    <<"l", "e", "t", " ", "a", "d", "d", " ", "=", " ", "f", "n", "(",
      "a", ",", " ", "b", ")", " ", "{", " ", "a", " ", "+", " ", "b",
      " ", "}", ";", " ", "a", "d", "d", "(", "1", ",", " ", "2", " ",
      "*", " ", "3", ")">>
\* 5 7
SrcTwoExprs ==
    <<"5", " ", "7">>
\* 999
SrcBigLiteral ==
    <<"9", "9", "9">>
\* 5; 999
SrcBigLiteralLater ==
    <<"5", ";", " ", "9", "9", "9">>
\* 5 / 0
SrcDivZero ==
    <<"5", " ", "/", " ", "0">>
\* 100 + 100
SrcOverflow ==
    <<"1", "0", "0", " ", "+", " ", "1", "0", "0">>
\* !!true
SrcBang ==
    <<"!", "!", "t", "r", "u", "e">>
\* 5++++5
SrcPlusChain ==
    <<"5", "+", "+", "+", "+", "5">>

StringTexts ==
    {SrcString, SrcConcat, SrcConcatThree, SrcStringMinus, SrcStringEqual}

WellFormedTexts ==
    {SrcLets, SrcIdents, SrcReturns, SrcFunctions, SrcIfElse, SrcIfElseThen,
     SrcIfThen, SrcIfSemiThen, SrcIfThenLet, SrcNestedIf, SrcCall, SrcTwoExprs,
     SrcBang, SrcPlusChain}

MalformedTexts ==
    {SrcIllegal, SrcIllegalLater, SrcUnclosedString, SrcUnclosedLater,
     SrcLetNoIdent, SrcLetNoAssign, SrcBadThenGood}

NumericTexts == {SrcBigLiteral, SrcBigLiteralLater, SrcDivZero, SrcOverflow}

\* fn(x) { 1; 2 }
SrcBlock ==
    <<"f", "n", "(", "x", ")", " ", "{", " ", "1", ";", " ", "2", " ", "}">>
\* fn(x) { 1; ; 2 }
SrcBlockSemis ==
    <<"f", "n", "(", "x", ")", " ", "{", " ", "1", ";", " ", ";", " ",
      "2", " ", "}">>
\* fn(x) { if (x) { 1 } }
SrcFnIf ==
    <<"f", "n", "(", "x", ")", " ", "{", " ", "i", "f", " ", "(", "x",
      ")", " ", "{", " ", "1", " ", "}", " ", "}">>
\* fn(x) { 1
SrcBlockEof ==
    <<"f", "n", "(", "x", ")", " ", "{", " ", "1">>

\* function literals whose body is the block under test
BlockTexts == {SrcBlock, SrcBlockSemis, SrcFnIf, SrcBlockEof}

Sources ==
    ArithmeticTexts \cup StringTexts \cup WellFormedTexts \cup MalformedTexts
        \cup NumericTexts \cup BlockTexts

ParseInit ==
    /\ envs = <<EnvNew>>
    /\ env = Root
    /\ result = NoResult
    /\ trace = <<>>
    /\ program = <<>>
    /\ nevals = 0
    /\ overflow_checks \in BOOLEAN
    /\ source \in Sources
    /\ parsed = NoParse
    /\ lexer = NoLexer
    /\ tokens = <<>>

\* what parse_program returned: Ok(program), or Err(err) with the entries
\* pushed before the failure (they are dropped with the Vec)
Parsed(r) ==
    [k |-> r.k, program |-> r.v.program, err |-> r.v.err, loops |-> r.p.loops]

\* Lexer::new, Parser::new and parse_program (lines 269-270 and 274)
ParseSource ==
    /\ parsed = NoParse
    /\ parsed' =
          IF ParserNewPanics(LexerNew(source))
          THEN [k |-> "panic", program |-> <<>>, loops |-> <<>>,
                err |-> PanicMessage("called Result::unwrap() on an Err value")]
          ELSE Parsed(parse_program(ParserNew(LexerNew(source))))
    /\ UNCHANGED <<envs, env, result, trace, program, nevals, overflow_checks,
                   source, lexer, tokens>>

\* eval.eval(program) on the Program that parse_program returned (line 274)
EvalParsed ==
    /\ parsed.k = "ok"
    /\ nevals = 0
    /\ EvalProgram(parsed.program)

\* parse_program().unwrap() on Err (line 274): the thread panics
UnwrapParsed ==
    /\ parsed.k = "err"
    /\ result = NoResult
    /\ result' = [k |-> "panic",
                  v |-> PanicMessage("called Result::unwrap() on an Err value")]
    /\ UNCHANGED <<envs, env, trace, program, nevals, overflow_checks, source,
                   parsed, lexer, tokens>>

ParseNext == ParseSource \/ EvalParsed \/ UnwrapParsed

SpecParse == ParseInit /\ [][ParseNext]_vars

-----------------------------------------------------------------------------
(* The lexer on its own: Lexer::new(source), then next_token again and      *)
(* again as Parser::next_token and the tests of lexer.rs do.  `tokens`      *)
(* records every call: the lexer before it, the Result and the lexer after. *)

\* length of the generated input texts
MaxLen == 4

\* one byte of each class the match of next_token tells apart, a NUL byte
\* and an illegal character included
LexAlphabet == {"=", "!", " ", "a", "1", "\"", "@", Nul}

\* 10 == 10;\n10 != 9;\n"foobar"\n"foo bar"
LexTestTail ==
    <<"1", "0", " ", "=", "=", " ", "1", "0", ";", "\n", "1", "0", " ",
      "!", "=", " ", "9", ";", "\n", "\"", "f", "o", "o", "b", "a", "r",
      "\"", "\n", "\"", "f", "o", "o", " ", "b", "a", "r", "\"">>
\* "a\"b"
LexEscape ==
    <<"\"", "a", "\\", "\"", "b", "\"">>
\* =+(){},;
LexPunctuation ==
    <<"=", "+", "(", ")", "{", "}", ",", ";">>

LexInputs ==
    UNION {[1..n -> LexAlphabet] : n \in 0..MaxLen}
        \cup {LexTestTail, LexEscape, LexPunctuation}

LexInit ==
    /\ envs = <<EnvNew>>
    /\ env = Root
    /\ result = NoResult
    /\ trace = <<>>
    /\ program = <<>>
    /\ nevals = 0
    /\ overflow_checks = TRUE
    /\ source \in LexInputs
    /\ parsed = NoParse
    /\ lexer = LexerNew(source)
    /\ tokens = <<>>

\* the record of one call of next_token
Called(before, r) == [before |-> before, k |-> r.k, tok |-> r.tok, after |-> r.l]

\* lexer.next_token(); the unwrap of read_int ends the thread
LexNextToken ==
    /\ Len(tokens) < Len(source) + 2
    /\ \A i \in DOMAIN tokens : tokens[i].k # "panic"
    /\ tokens' = Append(tokens, Called(lexer, lexer_next_token(lexer)))
    /\ lexer' = lexer_next_token(lexer).l
    /\ UNCHANGED <<envs, env, result, trace, program, nevals, overflow_checks,
                   source, parsed>>

LexNext == LexNextToken

SpecLex == LexInit /\ [][LexNext]_vars

-----------------------------------------------------------------------------
(* Properties *)

Events(kind) == {i \in DOMAIN trace : trace[i].ev = kind}

\* C1: a called function's body runs in a fresh environment whose outer link
\* is the environment that was current when its literal was evaluated, never
\* the caller's: every closure captures the environment current at its
\* literal, every body environment is new and is enclosed by the captured
\* one, and g(2), whose body calls f = fn() { x } while its own x is 2,
\* yields the x of the root environment where f was defined.
C1_LexicalScoping ==
    /\ \A i \in Events("closure") : trace[i].obj.env = trace[i].env
    /\ \A i \in Events("body") :
          /\ envs[trace[i].env].outer = trace[i].fn.env
          /\ \A j \in 1..(i - 1) :
                trace[j].ev \in {"stmt", "expr", "body"} => trace[j].env # trace[i].env
    /\ (program = PCallG /\ result.k = "ok") =>
          /\ <<"x">> \in DOMAIN envs[Root].store
          /\ result.v = envs[Root].store[<<"x">>]

\* the caller binds x to 2, the closure's defining environment binds it to
\* something else, and the call yields the latter
C1_Witness ==
    /\ program = PCallG
    /\ result.k = "ok"
    /\ result.v # IntObj(2)
    /\ \E i \in Events("body") :
          /\ trace[i].caller # trace[i].fn.env
          /\ <<"x">> \in DOMAIN envs[trace[i].caller].store
          /\ envs[trace[i].caller].store[<<"x">>] = IntObj(2)

\* C2: the value of a call expression is never a ReturnValue; a return in a
\* function body ends only that call: h(5) + 1 is 6 and in `h(5); 9;` the
\* statement 9 is evaluated, where h = fn(x) { return x; }.
C2_ReturnUnwrappedAtCall ==
    /\ \A i \in Events("ret") : trace[i].k = "ok" => trace[i].v.t # "ReturnValue"
    /\ (program = PCallPlus /\ \E i \in Events("ret") : trace[i].k = "ok")
          => result = [k |-> "ok", v |-> IntObj(6)]
    /\ (program = PCallThen /\ \E i \in Events("ret") : trace[i].k = "ok")
          => \E j \in Events("stmt") : trace[j].node = ExprStmt(LitInt(9))

\* C3: Eval::eval never returns Ok(ReturnValue(_)).
C3_NoReturnValueEscapes ==
    result.k = "ok" => result.v.t # "ReturnValue"

\* the statements that are entries of the program itself
ProgramEntries == {program[k].stmt : k \in {k \in DOMAIN program : program[k].ok}}

\* C4: when a return statement is evaluated inside nested if-blocks at the
\* top level of a program (outside every function body), no statement is
\* evaluated after it and eval returns the value of the return's expression.
C4_ReturnShortCircuit ==
    \A i \in Events("stmt_end") :
        (/\ trace[i].node.s = "Return"
         /\ trace[i].k = "ok"
         /\ trace[i].env = Root
         /\ trace[i].node \notin ProgramEntries)
        => /\ \A j \in Events("stmt") : j < i
           /\ result = [k |-> "ok", v |-> trace[i].v.value]

\* C5: when eval_call returns, with a value or with an error, the current
\* environment is the one it was when eval_call was entered; after every
\* eval that returned, the current environment is the root environment.
C5_EnvRestored ==
    /\ \A i \in Events("ret") : trace[i].after = trace[i].before
    /\ result.k # "panic" => env = Root

\* a call made inside a function body returned an error, so did the call of
\* that function, and the interpreter is back in the root environment
C5_Witness ==
    /\ env = Root
    /\ result.k = "err"
    /\ \E i, j \in Events("ret") :
          /\ i < j
          /\ trace[i].k = "err" /\ trace[i].before # Root
          /\ trace[j].k = "err" /\ trace[j].before = Root

\* a `let` of the name n completed in the root environment before position
\* upto of the history tr
LetAtRoot(tr, n, upto) ==
    \E j \in 1..upto :
        /\ tr[j].ev = "stmt_end"
        /\ tr[j].k = "ok"
        /\ tr[j].env = Root
        /\ tr[j].node.s = "Let"
        /\ tr[j].node.id = n

C6_Step ==
    \A n \in DOMAIN envs[Root].store :
        /\ n \in DOMAIN envs'[Root].store
        /\ ~LetAtRoot(trace', n, Len(trace'))
              => envs'[Root].store[n] = envs[Root].store[n]
        /\ \A i \in DOMAIN trace' :
              (/\ trace'[i].ev = "ident"
               /\ trace'[i].name = n
               /\ trace'[i].env = Root
               /\ ~LetAtRoot(trace', n, i))
              => (trace'[i].k = "ok" /\ trace'[i].v = envs[Root].store[n])

\* C6: a name bound in the root environment by an earlier eval stays bound
\* in every later eval; it keeps its value, and an identifier evaluated at
\* top level resolves to that value, until a `let` of that name is executed
\* at top level.
C6_BindingsPersist == [][C6_Step]_vars

\* the second eval reads a binding made by the first
C6_Witness ==
    /\ nevals = 2
    /\ program = PGetA
    /\ result.k = "ok"
    /\ \E i \in Events("ident") : trace[i].name = <<"a">> /\ trace[i].v = result.v

\* C7: once evaluating a statement has produced an error, eval returns an
\* error, the error of the first statement that failed, and no statement
\* begins to be evaluated afterwards.
C7_FirstErrorWins ==
    \A i \in Events("stmt_end") :
        trace[i].k = "err"
        => /\ result.k = "err"
           /\ \A j \in Events("stmt") : j < i
           /\ (\A j \in Events("stmt_end") : j < i => trace[j].k = "ok")
                 => result.v = trace[i].v

\* the first argument of a call that failed, or 0
FirstFailed(args) ==
    IF \E k \in DOMAIN args : args[k].k = "err"
    THEN CHOOSE k \in DOMAIN args :
            /\ args[k].k = "err"
            /\ \A m \in 1..(k - 1) : args[m].k # "err"
    ELSE 0

\* C8: in a call the callee is evaluated before the arguments, the
\* arguments left to right in the caller's environment; a failing argument
\* is reported in preference to an arity mismatch, and no argument is
\* evaluated after one has failed.
C8_CallOrder ==
    \A i \in Events("ret") :
        /\ trace[i].ai # <<>> => trace[i].ci < trace[i].ai[1]
        /\ \A k \in 1..(Len(trace[i].ai) - 1) : trace[i].ai[k] < trace[i].ai[k + 1]
        /\ \A k \in DOMAIN trace[i].ai : trace[trace[i].ai[k]].env = trace[i].before
        /\ (/\ trace[i].callee.k = "ok"
            /\ trace[i].callee.v.t = "Function"
            /\ FirstFailed(trace[i].args) # 0)
           => /\ trace[i].k = "err"
              /\ trace[i].v = trace[i].args[FirstFailed(trace[i].args)].v
        /\ FirstFailed(trace[i].args) \in {0, Len(trace[i].args)}

\* C9: calling a Function with a number of arguments different from its
\* number of parameters returns the arity error with the expected and the
\* given count; between the check and the return nothing is evaluated, no
\* environment is created and no binding is made.
C9_ArityChecked ==
    \A i \in Events("ret") :
        (/\ trace[i].callee.k = "ok"
         /\ trace[i].callee.v.t = "Function"
         /\ Len(trace[i].callee.v.params) # Len(trace[i].args))
        => /\ trace[i].k = "err"
           /\ trace[i].v = ArityError(Len(trace[i].callee.v.params), Len(trace[i].args))
           /\ trace[i - 1].ev = "apply"
           /\ trace[i].envs = trace[i - 1].envs
           /\ trace[i].after = trace[i - 1].env

\* h = fn(x) { return x; } is called with two arguments
C9_Witness ==
    /\ program = PCallTwoArgs
    /\ result = [k |-> "err", v |-> ArityError(1, 2)]
    /\ \E i \in Events("ret") : trace[i].callee.k = "ok" /\ trace[i].callee.v.t = "Function"

Abs(n) == IF n >= 0 THEN n ELSE -n
InRange(n) == n >= IntMin /\ n <= IntMax

\* what C10 says of an operator applied to two integers
IntInfixSpec(op, l, r, k, v) ==
    /\ k # "err"
    /\ (op = "+" /\ InRange(l + r)) => (k = "ok" /\ v = IntObj(l + r))
    /\ (op = "-" /\ InRange(l - r)) => (k = "ok" /\ v = IntObj(l - r))
    /\ (op = "*" /\ InRange(l * r)) => (k = "ok" /\ v = IntObj(l * r))
    /\ (op = "/" /\ r # 0 /\ InRange(-l)) =>
          /\ k = "ok"
          /\ v.t = "Int"
          /\ Abs(l - v.int * r) < Abs(r)
          /\ (l - v.int * r = 0 \/ (l - v.int * r > 0) = (l > 0))
    /\ op = "==" => (k = "ok" /\ v = BoolObj(l = r))
    /\ op = "!=" => (k = "ok" /\ v = BoolObj(l # r))
    /\ op = ">" => (k = "ok" /\ v = BoolObj(l > r))
    /\ op = "<" => (k = "ok" /\ v = BoolObj(l < r))

\* C10: infix operators are typed and never coerce.  Int x Int supports the
\* eight operators, Bool x Bool only == and !=, String x String only +; any
\* other pair of operands, or operator, is the unsupported-infix error that
\* names the operator and both operand types.  The left operand is
\* evaluated before the right one and both before the operator is applied.
C10_InfixTyped ==
    \A i \in Events("infix") :
        /\ trace[i].li < trace[i].ri /\ trace[i].ri < i
        /\ trace[trace[i].li].ev = "expr" /\ trace[trace[i].li].node = trace[i].lnode
        /\ trace[trace[i].ri].ev = "expr" /\ trace[trace[i].ri].node = trace[i].rnode
        /\ CASE trace[i].left.t = "Int" /\ trace[i].right.t = "Int" ->
                    IntInfixSpec(trace[i].op, trace[i].left.int, trace[i].right.int,
                                 trace[i].k, trace[i].v)
             [] trace[i].left.t = "Bool" /\ trace[i].right.t = "Bool" ->
                    CASE trace[i].op = "==" ->
                            /\ trace[i].k = "ok"
                            /\ trace[i].v = BoolObj(trace[i].left.bool = trace[i].right.bool)
                      [] trace[i].op = "!=" ->
                            /\ trace[i].k = "ok"
                            /\ trace[i].v = BoolObj(trace[i].left.bool # trace[i].right.bool)
                      [] OTHER ->
                            /\ trace[i].k = "err"
                            /\ trace[i].v = InfixError(trace[i].op, "bool", "bool")
             [] trace[i].left.t = "String" /\ trace[i].right.t = "String" ->
                    IF trace[i].op = "+"
                    THEN /\ trace[i].k = "ok"
                         /\ trace[i].v = StringObj(trace[i].left.str \o trace[i].right.str)
                    ELSE /\ trace[i].k = "err"
                         /\ trace[i].v = InfixError(trace[i].op, "string", "string")
             [] OTHER ->
                    /\ trace[i].k = "err"
                    /\ trace[i].v = InfixError(trace[i].op, get_type(trace[i].left),
                                               get_type(trace[i].right))

\* 5 + true was evaluated and eval returned the error naming int and bool
C10_Witness ==
    /\ result = [k |-> "err", v |-> InfixError("+", "int", "bool")]
    /\ \E i \in Events("infix") :
          /\ trace[i].left = IntObj(5)
          /\ trace[i].right = BoolObj(TRUE)
          /\ trace[i].k = "err"

\* C11: `!` on Bool(b) yields Bool(not b), `-` on Int(n) yields Int(-n), `+`
\* on Int(n) yields Int(n); `!` on a non-boolean and `-`/`+` on a non-integer
\* are errors; a chain of unary pluses is the identity (5++++5 is 10) and !!b
\* is b.
PrefixSpec(op, operand, k, v) ==
    CASE op = "!" ->
            IF operand.t = "Bool"
            THEN k = "ok" /\ v = BoolObj(~operand.bool)
            ELSE k = "err" /\ v = PrefixError("!", get_type(operand))
      [] op = "-" ->
            IF operand.t = "Int"
            THEN k = "ok" /\ v = IntObj(-operand.int)
            ELSE k = "err" /\ v = PrefixError("-", get_type(operand))
      [] op = "+" ->
            IF operand.t = "Int"
            THEN k = "ok" /\ v = operand
            ELSE k = "err" /\ v = PrefixError("+", get_type(operand))

C11_PrefixOperators ==
    /\ \A i \in Events("prefix") :
          PrefixSpec(trace[i].op, trace[i].operand, trace[i].k, trace[i].v)
    /\ \A b \in BOOLEAN :
          (nevals = 1 /\ program = Prog(<<ExprStmt(PrefixExpr("!",
                                            PrefixExpr("!", LitBool(b))))>>))
             => result = [k |-> "ok", v |-> BoolObj(b)]
    /\ (nevals = 1 /\ program[1].stmt.expr.x = "Infix")
             => result = [k |-> "ok", v |-> IntObj(10)]

\* C12: an if expression evaluates its condition once; when the value is
\* Null or Bool(false) only the alternative block is evaluated, otherwise
\* (Int(0), strings, functions included) only the consequence block; an if
\* without else whose condition is falsy evaluates to Null.
Falsy(obj) == obj.t = "Null" \/ (obj.t = "Bool" /\ obj.bool = FALSE)

Statements(block) == {block[i] : i \in DOMAIN block}

Chosen(e) == IF Falsy(e.cond) THEN e.node.alternative ELSE e.node.consequence
NotChosen(e) == IF Falsy(e.cond) THEN e.node.consequence ELSE e.node.alternative

C12_TruthinessAndIf ==
    \A j \in Events("if_end") :
        /\ trace[trace[j].at].ev = "if"
        \* the condition was evaluated once, right after the if began
        /\ trace[trace[trace[j].at].start].ev = "expr"
        /\ trace[trace[trace[j].at].start].node = trace[trace[j].at].node.condition
        /\ Cardinality({k \in trace[trace[j].at].start .. trace[j].at :
                            trace[k].ev = "expr"
                            /\ trace[k].node = trace[trace[j].at].node.condition}) = 1
        \* the chosen block is evaluated from its first statement on
        /\ Chosen(trace[trace[j].at]) # <<>>
              => /\ trace[trace[j].at + 1].ev = "stmt"
                 /\ trace[trace[j].at + 1].node = Chosen(trace[trace[j].at])[1]
        /\ Chosen(trace[trace[j].at]) = <<>> => j = trace[j].at + 1
        \* no statement of the other block is evaluated
        /\ \A k \in (trace[j].at + 1) .. (j - 1) :
              trace[k].ev = "stmt"
                 => trace[k].node \notin Statements(NotChosen(trace[trace[j].at]))
        \* a falsy condition and no else: Null
        /\ (Falsy(trace[trace[j].at].cond)
               /\ trace[trace[j].at].node.alternative = <<>>)
              => (trace[j].k = "ok" /\ trace[j].v = Null)

C12_Witness ==
    /\ result = [k |-> "ok", v |-> IntObj(60)]
    \* the outer condition is Null: the alternative block is evaluated
    /\ \E j \in Events("if_end") :
          /\ trace[trace[j].at].cond = Null
          /\ trace[trace[j].at].node.consequence = <<ExprStmt(LitInt(10))>>
          /\ trace[j].v = IntObj(60)
    \* if (false) { 50 } is Null
    /\ \E j \in Events("if_end") :
          /\ trace[trace[j].at].cond = BoolObj(FALSE)
          /\ trace[trace[j].at].node.alternative = <<>>
          /\ trace[j].v = Null
    \* if (0) { 60 } else { 70 } is 60
    /\ \E j \in Events("if_end") :
          /\ trace[trace[j].at].cond = IntObj(0)
          /\ trace[j].v = IntObj(60)

\* C13: evaluating an identifier returns the value bound in the nearest
\* environment along the outer chain that starts at the current environment
\* (an inner binding shadows an outer one); when no environment of the chain
\* binds the name it fails with the identifier-not-found error naming it.
RECURSIVE Chain(_, _)
Chain(heap, e) ==
    IF heap[e].outer = NoOuter THEN <<e>> ELSE <<e>> \o Chain(heap, heap[e].outer)

Binders(heap, e, id) ==
    {i \in DOMAIN Chain(heap, e) : id \in DOMAIN heap[Chain(heap, e)[i]].store}

Nearest(heap, e, id) ==
    Chain(heap, e)[CHOOSE i \in Binders(heap, e, id) :
                      \A j \in Binders(heap, e, id) : i <= j]

C13_IdentifierLookup ==
    \A i \in Events("ident") :
        IF Binders(trace[i].envs, trace[i].env, trace[i].name) = {}
        THEN trace[i].k = "err" /\ trace[i].v = IdentifierError(trace[i].name)
        ELSE /\ trace[i].k = "ok"
             /\ trace[i].v =
                   trace[i].envs[Nearest(trace[i].envs, trace[i].env,
                                         trace[i].name)].store[trace[i].name]

\* an identifier bound both in the environment of a call and in the root
C13_Witness ==
    \E i \in Events("ident") :
        /\ trace[i].k = "ok"
        /\ Cardinality(Binders(trace[i].envs, trace[i].env, trace[i].name)) >= 2
        /\ trace[i].envs[Root].store[trace[i].name] # trace[i].v

\* C14: a let statement inserts or overwrites the binding of its name in the
\* current environment only and yields Empty: every other environment, and
\* every other binding of the current one, is unchanged, so a `let x` in a
\* function body leaves the x of the root as it was.
C14_LetCurrentEnvOnly ==
    /\ \A i \in Events("let") :
          /\ DOMAIN trace[i].after = DOMAIN trace[i].before
          /\ \A e \in DOMAIN trace[i].before :
                e # trace[i].env => trace[i].after[e] = trace[i].before[e]
          /\ trace[i].after[trace[i].env].outer = trace[i].before[trace[i].env].outer
          /\ DOMAIN trace[i].after[trace[i].env].store =
                DOMAIN trace[i].before[trace[i].env].store \cup {trace[i].name}
          /\ trace[i].after[trace[i].env].store[trace[i].name] = trace[i].value
          /\ \A n \in DOMAIN trace[i].before[trace[i].env].store :
                n # trace[i].name =>
                    trace[i].after[trace[i].env].store[n] =
                        trace[i].before[trace[i].env].store[n]
    /\ \A i \in Events("stmt_end") :
          (trace[i].node.s = "Let" /\ trace[i].k = "ok") => trace[i].v = Empty
    \* fn(p) { let x = 3; p }(1); x;  yields the x the root had before
    /\ (program = PLetInBody /\ result.k = "ok")
          => \A i \in Events("let") :
                /\ trace[i].env # Root
                /\ <<"x">> \in DOMAIN trace[i].before[Root].store
                /\ result.v = trace[i].before[Root].store[<<"x">>]

C14_Witness ==
    /\ program = PLetInBody
    /\ result = [k |-> "ok", v |-> IntObj(7)]
    /\ \E i \in Events("let") :
          /\ trace[i].env # Root
          /\ trace[i].name = <<"x">>
          /\ trace[i].value = IntObj(3)
          /\ trace[i].before[Root].store[<<"x">>] = IntObj(7)

\* C15: an expression built from non-negative integer literals, + - * /,
\* unary minus and parentheses, without zero divisor or overflow, lexes,
\* parses and evaluates to its value in ordinary arithmetic: * and / bind
\* tighter than + and -, equal precedence associates to the left,
\* parentheses override both and / truncates.
Expected(text) == (CHOOSE a \in Arithmetic : a.text = text).val

C15_ArithmeticPipeline ==
    source \in ArithmeticTexts =>
        /\ parsed # NoParse =>
              /\ parsed.k = "ok"
              /\ Len(parsed.program) = 1
              /\ parsed.program[1].ok
        /\ nevals = 1 => result = [k |-> "ok", v |-> IntObj(Expected(source))]

\* 2 + 13*2, 13 - 2 - 2 and -13/2 are among the expressions; this is the
\* state after `(2 - 13)/2`
C15_Witness ==
    /\ source = <<"(", "2", " ", "-", " ", "1", "3", ")", "/", "2">>
    /\ nevals = 1
    /\ result = [k |-> "ok", v |-> IntObj(-5)]

\* C16: string literals joined by `+` lex, parse and evaluate to the String
\* that is their concatenation; joined by another operator they evaluate to
\* the unsupported-infix error for string & string, not to a parse error.
StringResult(text) ==
    CASE text = SrcString -> [k |-> "ok", v |-> StringObj(<<"a", "b">>)]
      [] text = SrcConcat -> [k |-> "ok", v |-> StringObj(<<"a", "b", "c">>)]
      [] text = SrcConcatThree -> [k |-> "ok", v |-> StringObj(<<"a", " ", "b">>)]
      [] text = SrcStringMinus ->
            [k |-> "err", v |-> InfixError("-", "string", "string")]
      [] text = SrcStringEqual ->
            [k |-> "err", v |-> InfixError("==", "string", "string")]

C16_StringPipeline ==
    source \in StringTexts =>
        /\ parsed # NoParse =>
              /\ parsed.k = "ok"
              /\ \A i \in DOMAIN parsed.program : parsed.program[i].ok
        /\ nevals = 1 => result = StringResult(source)

\* C17: parse_program never itself fails: for every input text, one with an
\* illegal character or an unterminated string included, it returns a
\* Program; a failed token read aborts only the statement being parsed and
\* becomes that statement's error entry, and the entries of the statements
\* parsed before it are kept.
C17_ParseProgramTotal ==
    parsed # NoParse =>
        /\ parsed.k = "ok"
        \* 5; "ab
        /\ source = SrcUnclosedString =>
              /\ Len(parsed.program) = 2
              /\ parsed.program[1] = OkStmt(ExprStmt(LitInt(5)))
              /\ ~parsed.program[2].ok
        \* let x = 5; x; "ab
        /\ source = SrcUnclosedLater =>
              /\ Len(parsed.program) = 3
              /\ parsed.program[1] = OkStmt(Let(<<"x">>, LitInt(5)))
              /\ parsed.program[2] = OkStmt(ExprStmt(Id("x")))
              /\ ~parsed.program[3].ok
        \* let x = 5; 7 @ 1; 2;
        /\ source = SrcIllegalLater =>
              /\ Len(parsed.program) >= 2
              /\ parsed.program[1] = OkStmt(Let(<<"x">>, LitInt(5)))
              /\ ~parsed.program[2].ok

\* C18: a statement that fails to parse contributes exactly one error entry
\* to the Program and parsing resumes after the next `;`: the tokens left
\* over from the malformed statement are not parsed as further statements,
\* and the well-formed statement after the boundary is an Ok entry.  The
\* three texts are one malformed statement followed by the statement `7;`.
C18_ParseErrorRecovery ==
    /\ parsed # NoParse
    /\ source \in {SrcLetNoIdent, SrcLetNoAssign, SrcBadThenGood}
    => /\ parsed.k = "ok"
       /\ Len(parsed.program) = 2
       /\ ~parsed.program[1].ok
       /\ parsed.program[2] = OkStmt(ExprStmt(LitInt(7)))

\* the number of statements written in a well-formed text
StatementCount(text) ==
    CASE text = SrcLets -> 3
      [] text = SrcFunctions -> 3
      [] text = SrcIfThenLet -> 3
      [] text \in {SrcIdents, SrcReturns, SrcIfElseThen, SrcIfThen,
                   SrcIfSemiThen, SrcCall, SrcTwoExprs} -> 2
      [] OTHER -> 1

\* C19: for a text of N well-formed statements (let, return and expression
\* statements, if expressions and function literals included), each with or
\* without its `;`, parse_program returns exactly N entries, all of them Ok:
\* no statement is dropped, split or merged with its neighbour.
C19_OneEntryPerStatement ==
    /\ parsed # NoParse
    /\ source \in WellFormedTexts \cup ArithmeticTexts
    => /\ parsed.k = "ok"
       /\ Len(parsed.program) = StatementCount(source)
       /\ \A i \in DOMAIN parsed.program : parsed.program[i].ok

\* C20: arithmetic never aborts the interpreter: division by zero, an
\* overflowing sum and an integer literal beyond the integer range produce
\* an error value (a LexError or an EvalError), never a panic of the lexer
\* or of the evaluator and never a silently wrapped value; every other
\* arithmetic text evaluates to its exact in-range result or to an error.
C20_ArithmeticNeverAborts ==
    /\ source \in NumericTexts =>
          /\ parsed # NoParse => parsed.k # "panic"
          /\ nevals = 1 => result.k = "err"
    /\ source \in ArithmeticTexts /\ nevals = 1 =>
          /\ result.k # "panic"
          /\ result.k = "ok" => result.v = IntObj(Expected(source))

\* the lexer at the byte where the token of call i starts
TokenStart(i) == skip_whitespace(tokens[i].before)

\* C21: repeated calls of next_token reach end-of-input after finitely many
\* calls (at most one per byte, and one more), and every call that does not
\* return end-of-input, a call that returns an error included, moves the
\* byte cursor strictly forward.
C21_LexerProgress ==
    /\ \A i \in DOMAIN tokens :
          \/ tokens[i].k = "ok" /\ tokens[i].tok = Token("Eof")
          \/ tokens[i].after.position > tokens[i].before.position
    /\ Len(tokens) = Len(source) + 2 =>
          \E i \in DOMAIN tokens :
              tokens[i].k = "ok" /\ tokens[i].tok = Token("Eof")

\* the bytes that may start a token or separate tokens
TokenBytes ==
    {" ", "\t", "\n", "\f", "\r"}
        \cup {"=", ";", "(", ")", ",", "+", "-", "*", "/", "!", "<", ">", "{", "}"}
        \cup Letters \cup {"_"}
        \cup {Digits[d] : d \in DOMAIN Digits}
        \cup {"\""}

\* C22: every input byte that is not whitespace, not one of the characters
\* = ; ( ) , + - * / ! < > { }, not a letter or underscore, not a digit and
\* not a double quote makes next_token return the illegal-character error, a
\* NUL byte before the end of the input included: end-of-input is returned
\* only when the cursor is past the last byte.
C22_IllegalBytes ==
    \A i \in DOMAIN tokens :
        /\ (/\ TokenStart(i).position < Len(source)
            /\ TokenStart(i).ch \notin TokenBytes)
           => /\ tokens[i].k = "err"
              /\ tokens[i].tok.msg = "No program should contain this token"
        /\ (tokens[i].k = "ok" /\ tokens[i].tok = Token("Eof"))
           => TokenStart(i).position >= Len(source)

\* the calls of next_token whose token starts with `=` or `!`
OperatorCalls == {i \in DOMAIN tokens : TokenStart(i).ch \in {"=", "!"}}

\* whether the byte after the one under the cursor of lexer l is `=`
EqualFollows(l) ==
    l.position + 2 <= Len(l.input) /\ l.input[l.position + 2] = "="

\* the bytes of the input from the cursor of lexer l on
Rest(l) == Slice(l.input, l.position, Len(l.input))

\* the Result of the next call of next_token on lexer l
Following(l) == [k |-> lexer_next_token(l).k, tok |-> lexer_next_token(l).tok]

\* C23: when `=` or `!` is immediately followed by `=`, next_token returns
\* Equal or NotEqual and consumes both bytes; otherwise it returns Assign or
\* Bang and consumes one byte; and the token after the operator is the one
\* that a lexer reads from the rest of the text after a separating blank.
C23_GreedyOperators ==
    \A i \in OperatorCalls :
        /\ tokens[i].k = "ok"
        /\ tokens[i].tok =
              IF EqualFollows(TokenStart(i))
              THEN (IF TokenStart(i).ch = "=" THEN Token("Equal")
                                              ELSE Token("NotEqual"))
              ELSE (IF TokenStart(i).ch = "=" THEN Token("Assign")
                                              ELSE Token("Bang"))
        /\ tokens[i].after.position =
              TokenStart(i).position + (IF tokens[i].tok.t \in {"Equal", "NotEqual"}
                                        THEN 2 ELSE 1)
        /\ Following(tokens[i].after)
              = Following(LexerNew(<<" ">> \o Rest(tokens[i].after)))

\* `===` has been read as Equal, Assign and `= =` as Assign, Assign
C23_Witness ==
    \/ /\ source = <<"=", "=", "=">>
       /\ Len(tokens) = 2
       /\ tokens[1].tok = Token("Equal")
       /\ tokens[2].tok = Token("Assign")
    \/ /\ source = <<"=", " ", "=">>
       /\ Len(tokens) = 2
       /\ tokens[1].tok = Token("Assign")
       /\ tokens[2].tok = Token("Assign")

\* the calls of next_token whose token starts with a double quote
StringCalls == {i \in DOMAIN tokens : TokenStart(i).ch = "\""}

\* the bytes after the opening quote of call i, and the places of the
\* double quotes among them
AfterQuote(i) ==
    Slice(source, TokenStart(i).position + 1, Len(source))

Quotes(bytes) == {j \in DOMAIN bytes : bytes[j] = "\""}

FirstQuote(bytes) == CHOOSE j \in Quotes(bytes) : \A q \in Quotes(bytes) : j <= q

\* C26: starting at a `"`, next_token returns the String token whose text is
\* exactly the bytes strictly between that quote and the next `"` (possibly
\* none) and leaves the cursor just after the closing quote; when the input
\* ends before a closing quote it returns the unterminated-string error.  A
\* backslash is an ordinary byte.
C26_StringScanning ==
    \A i \in StringCalls :
        IF Quotes(AfterQuote(i)) # {}
        THEN /\ tokens[i].k = "ok"
             /\ tokens[i].tok =
                   TokenString(SubSeq(AfterQuote(i), 1,
                                      FirstQuote(AfterQuote(i)) - 1))
             /\ tokens[i].after.position =
                   TokenStart(i).position + 1 + FirstQuote(AfterQuote(i))
        ELSE /\ tokens[i].k = "err"
             /\ tokens[i].tok.msg = "String is not properly closed!"

\* the texts that begin with an if expression
IfTexts ==
    {SrcIfElse, SrcIfElseThen, SrcIfThen, SrcIfSemiThen, SrcIfThenLet,
     SrcNestedIf}

\* parse_if_expr on the Parser that Parser::new makes for the text
ParsedIf(text) == parse_if_expr(ParserNew(LexerNew(text)))

\* C24: after an if expression has been parsed the parser's current token is
\* the closing `}` of the last block it parsed, no token after the if
\* expression is consumed; so in `if (10 > 1) { if (10 > 1) { return 10; }
\* return 1; }` the `return` after the inner if still begins the second
\* statement of the outer block.
C24_IfStopsAtBrace ==
    /\ parsed # NoParse
    /\ source \in IfTexts
    => /\ ParsedIf(source).k = "ok"
       /\ ParsedIf(source).p.current_token = Token("RSquirly")
       /\ source = SrcNestedIf =>
             /\ parsed.program[1].ok
             /\ Len(parsed.program[1].stmt.expr.consequence) = 2
             /\ parsed.program[1].stmt.expr.consequence[2] = Return(LitInt(1))

\* parse_block_statement on the block of a text `fn(x) { ... `, the
\* parser's current token being the opening brace
ParsedBlock(text) ==
    parse_block_statement(ParserNew(LexerNew(Slice(text, 6, Len(text)))))

\* C25: a block ends only at its own closing `}`: parse_block_statement
\* returns Ok only with the matching `}` as current token and with every
\* statement between the braces in the block, end-of-input before the `}`
\* is a parse error, a `;` inside the braces does not end the block, and
\* `fn(x) { if (x) { 1 } }` parses.
C25_BlockEndsAtBrace ==
    /\ parsed # NoParse
    /\ source \in BlockTexts
    => /\ ParsedBlock(source).k = "ok" =>
             ParsedBlock(source).p.current_token = Token("RSquirly")
       /\ source = SrcBlockEof =>
             /\ ParsedBlock(source).k = "err"
             /\ ~parsed.program[1].ok
       /\ source # SrcBlockEof =>
             /\ ParsedBlock(source).k = "ok"
             /\ parsed.k = "ok"
             /\ Len(parsed.program) = 1
             /\ parsed.program[1].ok
       /\ source = SrcBlock =>
             ParsedBlock(source).v = <<ExprStmt(LitInt(1)), ExprStmt(LitInt(2))>>
       /\ source = SrcBlockSemis =>
             ParsedBlock(source).v[Len(ParsedBlock(source).v)]
                 = ExprStmt(LitInt(2))

\* C30: parsing terminates: parse_program returns, with a Program or an
\* error, for every text; between two iterations of the statement loop, of
\* the block loop, of the parameter loop or of the call-argument loop at
\* least one token has been read, and no loop iterates again after an
\* iteration that began with end-of-input as the current token.
C30_ParsingTerminates ==
    parsed # NoParse =>
        /\ parsed.k \in {"ok", "err"}
        /\ \A i, j \in DOMAIN parsed.loops :
              i < j /\ parsed.loops[i].loop = parsed.loops[j].loop =>
                  /\ parsed.loops[i].reads < parsed.loops[j].reads
                  /\ parsed.loops[i].token # "Eof"

\* the Function value an object is or wraps, if any
RECURSIVE Unwrapped(_)
Unwrapped(obj) == IF obj.t = "ReturnValue" THEN Unwrapped(obj.value) ELSE obj

\* the environments captured by the Function values bound in environment e
Captured(e) ==
    {Unwrapped(envs[e].store[id]).env :
        id \in {n \in DOMAIN envs[e].store :
                    Unwrapped(envs[e].store[n]).t = "Function"}}

\* the outer environment of e, if any
Outer(e) == IF envs[e].outer = NoOuter THEN {} ELSE {envs[e].outer}

\* the environments reached from the set S in at most n steps along outer
\* links, and along outer links and captured environments
RECURSIVE OuterReach(_, _)
OuterReach(S, n) ==
    IF n = 0 THEN S
    ELSE OuterReach(S \cup UNION {Outer(e) : e \in S}, n - 1)

RECURSIVE RefReach(_, _)
RefReach(S, n) ==
    IF n = 0 THEN S
    ELSE RefReach(S \cup UNION {Outer(e) \cup Captured(e) : e \in S}, n - 1)

\* C27: the graph of environment references is acyclic in every reachable
\* state: following outer links and the captured environments of the
\* Function values stored in bindings, no environment reaches itself.
C27_EnvGraphAcyclic ==
    \A e \in DOMAIN envs :
        e \notin RefReach(Outer(e) \cup Captured(e), Len(envs))

\* C27 as amended: the graph of outer links is acyclic: following outer
\* links alone no environment reaches itself, and every outer link is an
\* environment of the arena.
C27_OuterLinksAcyclic ==
    \A e \in DOMAIN envs :
        /\ Outer(e) \subseteq DOMAIN envs
        /\ e \notin OuterReach(Outer(e), Len(envs))

\* an environment with an outer link exists, and an environment reaches
\* itself through a closure bound in it or in an environment it reaches
C27_Witness ==
    /\ \E e \in DOMAIN envs : envs[e].outer # NoOuter
    /\ \E e \in DOMAIN envs :
          e \in RefReach(Outer(e) \cup Captured(e), Len(envs))

\* the calls of the function bound to `name` in the last evaluation
CallsOf(name) ==
    {i \in Events("body") :
        /\ <<name>> \in DOMAIN envs[Root].store
        /\ trace[i].fn = envs[Root].store[<<name>>]}

\* C28: a closure captures its defining environment by reference, not as a
\* snapshot: a binding added to or overwritten in that environment after the
\* function literal was evaluated is what the body sees.  `let g = fn() { y
\* }; let y = 3; g()` yields 3, with `let y = 1;` before it and `let y = 2;`
\* after the literal the call yields 2, and a function bound with `let r =
\* fn(n) { ... r(n - 1) ... }` calls itself.
C28_CaptureByReference ==
    /\ program = PLateBinding => result = [k |-> "ok", v |-> IntObj(3)]
    /\ program = POverwrite => result = [k |-> "ok", v |-> IntObj(2)]
    /\ program = PRecursive =>
          /\ result = [k |-> "ok", v |-> IntObj(0)]
          /\ Cardinality(CallsOf("r")) = 3

\* g() has found the y bound after g, and r has called itself
C28_Witness ==
    \/ /\ program = PLateBinding
       /\ result.k = "ok"
       /\ result.v = envs[Root].store[<<"y">>]
       /\ CallsOf("g") # {}
    \/ /\ program = PRecursive
       /\ \E i, j \in CallsOf("r") : trace[j].caller = trace[i].env

\* the events at which a statement of the program itself (not of a block or
\* of a function body) begins, and the place of such a statement in the
\* program
TopLevel ==
    {i \in Events("stmt") :
        Cardinality({j \in Events("stmt") : j < i})
            = Cardinality({j \in Events("stmt_end") : j < i})}

Rank(i) == Cardinality({j \in TopLevel : j <= i})

\* the last `let` of the name executed in the root environment
LastLet(name) ==
    CHOOSE i \in Events("let") :
        /\ trace[i].name = name
        /\ trace[i].env = Root
        /\ \A j \in Events("let") :
              trace[j].name = name /\ trace[j].env = Root => j <= i

\* C29: when eval returns an error because entry k of the Program is a
\* parse-error entry or because statement k fails, the statements before k
\* have been evaluated in order, no statement after k has been evaluated,
\* and the bindings made by the `let`s remain in the root environment for
\* the later calls of eval; a Program with a parse-error entry is not
\* rejected up front.
C29_EffectsBeforeError ==
    /\ result.k = "err" =>
          /\ \A i \in TopLevel :
                /\ Rank(i) <= Len(program)
                /\ \A m \in 1..Rank(i) : program[m].ok
                /\ trace[i].node = program[Rank(i)].stmt
          /\ \/ /\ Cardinality(TopLevel) < Len(program)
                /\ ~program[Cardinality(TopLevel) + 1].ok
                /\ result.v = program[Cardinality(TopLevel) + 1].err
                /\ \A j \in Events("stmt_end") : trace[j].k = "ok"
             \/ /\ trace # <<>>
                /\ trace[Len(trace)].ev = "stmt_end"
                /\ trace[Len(trace)].k = "err"
                /\ trace[Len(trace)].v = result.v
          /\ \A i \in Events("let") :
                trace[i].env = Root =>
                    /\ trace[i].name \in DOMAIN envs[Root].store
                    /\ envs[Root].store[trace[i].name]
                          = trace[LastLet(trace[i].name)].value
    /\ program \in {PLetParseError, PLetEvalError} =>
          /\ result.k = "err"
          /\ Cardinality(TopLevel) = (IF program = PLetParseError THEN 1 ELSE 2)
          /\ envs[Root].store[<<"e">>] = IntObj(5)
          /\ <<"w">> \notin DOMAIN envs[Root].store
    /\ (program = PGetE /\ result.k = "ok") => result.v = IntObj(5)

\* the second eval reads the binding made before the error of the first
C29_Witness ==
    /\ nevals = 2
    /\ program = PGetE
    /\ result = [k |-> "ok", v |-> IntObj(5)]

====
